---- MODULE Spec2Model ----
(***************************************************************************)
(* Verification model of the slide deck agent: the chart annotation        *)
(* placer, the label engine, the safe-zone check, the column chart colour  *)
(* engine and the presentation builder of MainSlideGeneratorSkill.         *)
(*                                                                         *)
(* Text (prompts, JSON documents, label strings) is a sequence of tokens,  *)
(* one token per character class that the code distinguishes.  Placement   *)
(* coordinates are kept in half pixels (twice the pixel value), so that    *)
(* the midpoint divisions of the placer are exact on integer pixel input.  *)
(* Slide geometry is kept in EMU, the unit python-pptx stores.             *)
(***************************************************************************)
EXTENDS Integers, Sequences, FiniteSets, TLC

VARIABLES
    placerIn, placerOut,    \* AnnotationPlacer.place_difference_line: call and result
    labelIn, labelOut,      \* LLMPoweredLabelEngine.generate_*_label: call and result
    boundsIn, boundsOut,    \* validate_bounds: call and result
    chartIn, chartOut,      \* _create_column_chart: chart_data and the fills applied
    request,                \* the PresentationRequest given to create_presentation
    prs,                    \* the slides of the Presentation being built
    pc,                     \* position inside create_presentation
    result,                 \* the GenerationResult, once returned
    agentIn, agentOut,      \* SlideDeckAgent / ContentAnalyzerSkill: call and result
    genIn, genOut,          \* ContentGenerator.generate_from_document: call and result
    vdaIn, vdaOut,          \* _visual_design_ai_place_difference_line: call and result
    arrowIn, arrowOut,      \* _add_cagr_arrow: chart geometry and the arc drawn
    barTopIn, barTopOut     \* bar-top Y of the annotated values: call and result

vars ==
    <<placerIn, placerOut, labelIn, labelOut, boundsIn, boundsOut,
      chartIn, chartOut, request, prs, pc, result,
      agentIn, agentOut, genIn, genOut, vdaIn, vdaOut, arrowIn, arrowOut,
      barTopIn, barTopOut>>

placerVars == <<placerIn, placerOut>>
labelVars == <<labelIn, labelOut>>
boundsVars == <<boundsIn, boundsOut>>
chartVars == <<chartIn, chartOut>>
deckVars == <<request, prs, pc, result>>
agentVars == <<agentIn, agentOut>>
genVars == <<genIn, genOut>>
vdaVars == <<vdaIn, vdaOut>>
arrowVars == <<arrowIn, arrowOut>>
barTopVars == <<barTopIn, barTopOut>>
extVars == <<agentVars, genVars, vdaVars, arrowVars, barTopVars>>

\* ------------------------------------------------------------------------
\* Bounds
\* ------------------------------------------------------------------------
MaxLabelLen == 3
MaxSeriesLen == 5

\* ------------------------------------------------------------------------
\* Text helpers (Python str methods used by the code)
\* ------------------------------------------------------------------------
Whitespace == {"NL", "SP"}

RECURSIVE LStrip(_)
LStrip(s) ==
    IF Len(s) > 0 /\ Head(s) \in Whitespace THEN LStrip(Tail(s)) ELSE s

RECURSIVE RStrip(_)
RStrip(s) ==
    IF Len(s) > 0 /\ s[Len(s)] \in Whitespace
    THEN RStrip(SubSeq(s, 1, Len(s) - 1))
    ELSE s

Strip(s) == LStrip(RStrip(s))

StartsWith(s, p) == Len(s) >= Len(p) /\ SubSeq(s, 1, Len(p)) = p

EndsWith(s, p) ==
    Len(s) >= Len(p) /\ SubSeq(s, Len(s) - Len(p) + 1, Len(s)) = p

\* index of the first occurrence of sep in s at or after from, 0 if none
FindFrom(s, sep, from) ==
    LET hits == {i \in from..(Len(s) - Len(sep) + 1) :
                    SubSeq(s, i, i + Len(sep) - 1) = sep}
    IN IF hits = {} THEN 0 ELSE CHOOSE i \in hits : \A j \in hits : i <= j

\* s.split(sep)[0]
SplitFirst(s, sep) ==
    LET i == FindFrom(s, sep, 1)
    IN IF i = 0 THEN s ELSE SubSeq(s, 1, i - 1)

\* s.split(sep)[1]; ok is FALSE where Python raises IndexError
SplitSecond(s, sep) ==
    LET i == FindFrom(s, sep, 1)
        a == i + Len(sep)
        j == IF i = 0 THEN 0 ELSE FindFrom(s, sep, a)
    IN IF i = 0 THEN [ok |-> FALSE, text |-> <<>>]
       ELSE [ok |-> TRUE,
             text |-> IF j = 0 THEN SubSeq(s, a, Len(s)) ELSE SubSeq(s, a, j - 1)]

\* ------------------------------------------------------------------------
\* JSON text: json.dumps(..., indent=2) and json.loads
\* ------------------------------------------------------------------------
\* Characters a label text is built from: an ordinary letter "n", a line
\* feed, a double quote, a backslash, and the two phrases the fallback
\* splits the prompt on ("Input Data:" and "Apply").
LabelChars == {"n", "NL", "Q", "BS", "ID", "AP"}

LabelTexts == UNION {[1..k -> LabelChars] : k \in 0..MaxLabelLen}

\* Pixel coordinates of the bars the model draws its inputs from.
BarRightValues == {100, 101}
BarLeftValues == {320, 321, 322}
BarTopValues == {50, 81}
BarPairs == {<<100, 50>>, <<101, 81>>}
CoordValues == BarRightValues \cup BarLeftValues \cup BarTopValues \cup {40, 380}

NumToken == [n \in CoordValues |-> ToString(n)]

TokenNum ==
    [t \in {NumToken[n] : n \in CoordValues} |->
        CHOOSE n \in CoordValues : NumToken[n] = t]

\* variant that leaves a line feed inside a string literal unescaped
JsonEscapeRawLF(c) ==
    CASE c = "Q" -> <<"BS", "Q">>
      [] c = "BS" -> <<"BS", "BS">>
      [] OTHER -> <<c>>

\* the escapes json.dumps applies inside a string literal
JsonEscape(c) ==
    CASE c = "NL" -> <<"BS", "n">>
      [] c = "Q" -> <<"BS", "Q">>
      [] c = "BS" -> <<"BS", "BS">>
      [] OTHER -> <<c>>

RECURSIVE EscapeAll(_)
EscapeAll(s) ==
    IF s = <<>> THEN <<>> ELSE JsonEscape(Head(s)) \o EscapeAll(Tail(s))

DumpsStr(s) == <<"Q">> \o EscapeAll(s) \o <<"Q">>

\* a bar dict, nested one level: members at indent 4, closing brace at 2
DumpsBar(b) ==
    <<"{", "NL", "SP", "left_edge_x", NumToken[b.left_edge_x], ",",
           "NL", "SP", "right_edge_x", NumToken[b.right_edge_x], ",",
           "NL", "SP", "top_edge_y", NumToken[b.top_edge_y],
           "NL", "SP", "}">>

\* json.dumps(input_data, indent=2); a key token stands for the quoted key
\* and its colon
JsonDumps(d) ==
    <<"{", "NL", "SP", "chart_type">> \o DumpsStr(<<d.chart_type>>) \o
    <<",", "NL", "SP", "annotation_type">> \o DumpsStr(<<d.annotation_type>>) \o
    <<",", "NL", "SP", "bar1">> \o DumpsBar(d.bar1) \o
    <<",", "NL", "SP", "bar2">> \o DumpsBar(d.bar2) \o
    <<",", "NL", "SP", "label_text">> \o DumpsStr(d.label_text) \o
    <<"NL", "}">>

KeyTokens ==
    {"chart_type", "annotation_type", "bar1", "bar2", "label_text",
     "left_edge_x", "right_edge_x", "top_edge_y"}

RECURSIVE SkipWs(_, _)
SkipWs(toks, i) ==
    IF i <= Len(toks) /\ toks[i] \in Whitespace THEN SkipWs(toks, i + 1) ELSE i

ParseFail == [ok |-> FALSE, v |-> [t |-> "none"], next |-> 0]

\* the body of a string literal, from the token after the opening quote
RECURSIVE ReadStr(_, _, _)
ReadStr(toks, i, acc) ==
    IF i > Len(toks) THEN ParseFail
    ELSE IF toks[i] = "Q"
         THEN [ok |-> TRUE, v |-> [t |-> "str", s |-> acc], next |-> i + 1]
    ELSE IF toks[i] = "NL" THEN ParseFail
    ELSE IF toks[i] = "BS"
         THEN IF i + 1 > Len(toks) THEN ParseFail
              ELSE IF toks[i + 1] = "n" THEN ReadStr(toks, i + 2, Append(acc, "NL"))
              ELSE IF toks[i + 1] \in {"Q", "BS"}
                   THEN ReadStr(toks, i + 2, Append(acc, toks[i + 1]))
              ELSE ParseFail
    ELSE ReadStr(toks, i + 1, Append(acc, toks[i]))

RECURSIVE ParseValue(_, _)
RECURSIVE ParseMembers(_, _, _)
ParseValue(toks, i0) ==
    LET i == SkipWs(toks, i0)
    IN IF i > Len(toks) THEN ParseFail
       ELSE IF toks[i] = "{"
            THEN LET j == SkipWs(toks, i + 1)
                 IN IF j <= Len(toks) /\ toks[j] = "}"
                    THEN [ok |-> TRUE, v |-> [t |-> "obj", o |-> <<>>], next |-> j + 1]
                    ELSE ParseMembers(toks, j, <<>>)
       ELSE IF toks[i] = "Q" THEN ReadStr(toks, i + 1, <<>>)
       ELSE IF toks[i] \in DOMAIN TokenNum
            THEN [ok |-> TRUE, v |-> [t |-> "num", n |-> TokenNum[toks[i]]],
                  next |-> i + 1]
       ELSE ParseFail

ParseMembers(toks, i, obj) ==
    IF i > Len(toks) \/ toks[i] \notin KeyTokens THEN ParseFail
    ELSE LET r == ParseValue(toks, i + 1)
         IN IF ~r.ok THEN ParseFail
            ELSE LET o == (toks[i] :> r.v) @@ obj
                     j == SkipWs(toks, r.next)
                 IN IF j > Len(toks) THEN ParseFail
                    ELSE IF toks[j] = "}"
                         THEN [ok |-> TRUE, v |-> [t |-> "obj", o |-> o],
                               next |-> j + 1]
                    ELSE IF toks[j] = ","
                         THEN ParseMembers(toks, SkipWs(toks, j + 1), o)
                    ELSE ParseFail

\* json.loads(text); ok is FALSE where it raises JSONDecodeError
JsonLoads(toks) ==
    LET r == ParseValue(toks, 1)
    IN IF r.ok /\ SkipWs(toks, r.next) > Len(toks)
       THEN [ok |-> TRUE, v |-> r.v]
       ELSE [ok |-> FALSE, v |-> [t |-> "none"]]

\* ------------------------------------------------------------------------
\* AnnotationPlacer (llapi/annotation_placer.py)
\* ------------------------------------------------------------------------
Providers == {"mock", "anthropic", "openai", "other"}

Bars1 ==
    {[left_edge_x |-> 40, right_edge_x |-> p[1], top_edge_y |-> p[2]] :
        p \in BarPairs}

Bars2 ==
    {[left_edge_x |-> l, right_edge_x |-> 380, top_edge_y |-> 50] :
        l \in BarLeftValues}

PlacerInputs ==
    [provider : Providers, bar1 : Bars1, bar2 : Bars2, label_text : LabelTexts]

LineKeys == {"type", "color", "start_y", "end_y", "position_x"}
LabelKeys == {"text", "position_x", "vertical_center_y", "placement_side"}

NoLine ==
    [type |-> "", color |-> "", start_y |-> 0, end_y |-> 0, position_x |-> 0]

NoLabel ==
    [text |-> <<>>, position_x |-> 0, vertical_center_y |-> 0,
     placement_side |-> ""]

\* a JSON value as place_difference_line returns it: its Python type, the
\* keys present at the top level and inside 'line' and 'label', and the
\* entries (coordinates in half pixels)
PyValue(t, keys, line, lineKeys, label, labelKeys) ==
    [t |-> t, keys |-> keys, line |-> line, lineKeys |-> lineKeys,
     label |-> label, labelKeys |-> labelKeys]

NoValue == PyValue("none", {}, NoLine, {}, NoLabel, {})

Returned(v) == [state |-> "returned", value |-> v]
Raised == [state |-> "raised", value |-> NoValue]

\* variant of the collision test that only moves the label once it has
\* reached past the bar by more than its own width
CollisionLate(label_x, label_width_estimate, bar2_left) ==
    label_x > bar2_left + label_width_estimate

\* RULE 4, in half pixels: label_x + label_width_estimate > bar2.left_edge_x
Collision(label_x, label_width_estimate, bar2_left) ==
    label_x + label_width_estimate > bar2_left

\* variant that anchors the line on the left bar's edge
GutterAtBar1(bar1_right, bar2_left) == 2 * bar1_right

\* RULE 1, in half pixels: (bar1.right_edge_x + bar2.left_edge_x) / 2
GutterCenterline(bar1_right, bar2_left) == bar1_right + bar2_left

\* _calculate_placement_locally on bars given in pixels
LocalPlacement(bar1, bar2, label_text) ==
    LET gutter_centerline == GutterCenterline(bar1.right_edge_x, bar2.left_edge_x)
        line_start_y == 2 * bar1.top_edge_y
        line_end_y == 2 * bar2.top_edge_y
        vertical_center_y == bar1.top_edge_y + bar2.top_edge_y
        label_padding == 2 * 10
        label_width_estimate == 2 * 100
        right_x == gutter_centerline + label_padding
        collides == Collision(right_x, label_width_estimate, 2 * bar2.left_edge_x)
        label_x == IF collides
                   THEN gutter_centerline - label_padding - label_width_estimate
                   ELSE right_x
        placement_side == IF collides THEN "left" ELSE "right"
    IN PyValue("dict", {"line", "label"},
               [type |-> "dashed", color |-> "Negative Red",
                start_y |-> line_start_y, end_y |-> line_end_y,
                position_x |-> gutter_centerline],
               LineKeys,
               [text |-> label_text, position_x |-> label_x,
                vertical_center_y |-> vertical_center_y,
                placement_side |-> placement_side],
               LabelKeys)

IsBarObject(v) ==
    /\ v.t = "obj"
    /\ {"right_edge_x", "left_edge_x", "top_edge_y"} \subseteq DOMAIN v.o
    /\ \A k \in {"right_edge_x", "left_edge_x", "top_edge_y"} : v.o[k].t = "num"

BarOf(v) ==
    [left_edge_x |-> v.o["left_edge_x"].n, right_edge_x |-> v.o["right_edge_x"].n,
     top_edge_y |-> v.o["top_edge_y"].n]

\* _calculate_placement_locally on a parsed input_data; raises (KeyError,
\* TypeError) when the entries it reads are missing or of the wrong type
CalculatePlacementLocally(v) ==
    IF /\ v.t = "obj"
       /\ {"bar1", "bar2", "label_text"} \subseteq DOMAIN v.o
       /\ IsBarObject(v.o["bar1"])
       /\ IsBarObject(v.o["bar2"])
       /\ v.o["label_text"].t = "str"   \* every label_text of the model is a str
    THEN Returned(LocalPlacement(BarOf(v.o["bar1"]), BarOf(v.o["bar2"]),
                                 v.o["label_text"].s))
    ELSE Raised

\* the input_data dict of place_difference_line, as the mock path reads it
InputObject(d) ==
    LET bar(b) == [t |-> "obj",
                   o |-> [left_edge_x |-> [t |-> "num", n |-> b.left_edge_x],
                          right_edge_x |-> [t |-> "num", n |-> b.right_edge_x],
                          top_edge_y |-> [t |-> "num", n |-> b.top_edge_y]]]
    IN [t |-> "obj",
        o |-> [chart_type |-> [t |-> "str", s |-> <<d.chart_type>>],
               annotation_type |-> [t |-> "str", s |-> <<d.annotation_type>>],
               bar1 |-> bar(d.bar1), bar2 |-> bar(d.bar2),
               label_text |-> [t |-> "str", s |-> d.label_text]]]

PromptHead == <<"Calculate", "NL", "NL", "ID", "NL">>
PromptTail == <<"NL", "NL", "AP", "rules">>

BuildPrompt(input_data) == PromptHead \o JsonDumps(input_data) \o PromptTail

\* the except branches of _call_anthropic and _call_openai:
\* json.loads(prompt.split("Input Data:\n")[1].split("\n\nApply")[0])
FallbackFromPrompt(prompt) ==
    LET part == SplitSecond(prompt, <<"ID", "NL">>)
        parsed == JsonLoads(SplitFirst(part.text, <<"NL", "NL", "AP">>))
    IN IF part.ok /\ parsed.ok THEN CalculatePlacementLocally(parsed.v) ELSE Raised

\* _extract_json
ExtractJson(text) ==
    LET t1 == Strip(text)
        t2 == IF StartsWith(t1, <<"FENCE", "json">>) THEN SubSeq(t1, 3, Len(t1))
              ELSE IF StartsWith(t1, <<"FENCE">>) THEN Tail(t1)
              ELSE t1
        t3 == IF EndsWith(t2, <<"FENCE">>) THEN SubSeq(t2, 1, Len(t2) - 1) ELSE t2
    IN Strip(t3)

\* What the LLM may answer: one token per JSON document, with the value
\* json.loads gives it; "prose" is text that is no JSON document.
AnswerLine ==
    [type |-> "dashed", color |-> "Negative Red", start_y |-> 100,
     end_y |-> 100, position_x |-> 420]

AnswerLabel ==
    [text |-> <<"n">>, position_x |-> 440, vertical_center_y |-> 100,
     placement_side |-> "right"]

DocumentValue ==
    [J_number |-> PyValue("number", {}, NoLine, {}, NoLabel, {}),
     J_list |-> PyValue("list", {}, NoLine, {}, NoLabel, {}),
     J_empty |-> PyValue("dict", {}, NoLine, {}, NoLabel, {}),
     J_line_only |-> PyValue("dict", {"line"}, AnswerLine, LineKeys, NoLabel, {}),
     J_no_side |-> PyValue("dict", {"line", "label"}, AnswerLine, LineKeys,
                           AnswerLabel, LabelKeys \ {"placement_side"}),
     J_placement |-> PyValue("dict", {"line", "label"}, AnswerLine, LineKeys,
                             AnswerLabel, LabelKeys)]

ResponseTexts ==
    {<<d>> : d \in DOMAIN DocumentValue} \cup
    {<<"prose">>,
     <<"FENCE", "json", "NL", "J_placement", "NL", "FENCE">>,
     <<"FENCE", "NL", "J_empty", "NL", "FENCE", "NL">>,
     <<"FENCE", "json", "NL", "prose">>}

\* json.loads on the answer's text
LoadsAnswer(text) ==
    IF Len(text) = 1 /\ text[1] \in DOMAIN DocumentValue
    THEN [ok |-> TRUE, v |-> DocumentValue[text[1]]]
    ELSE [ok |-> FALSE, v |-> NoValue]

\* outcomes of the guarded block of _call_anthropic / _call_openai: the
\* import fails, the API call raises, the answer has no content block, or
\* the answer carries a text
LLMOutcomes ==
    {[kind |-> k, text |-> <<>>] : k \in {"import_error", "api_error", "no_content"}}
    \cup {[kind |-> "text", text |-> t] : t \in ResponseTexts}

NoLLM == [kind |-> "not_called", text |-> <<>>]

\* the body shared by _call_anthropic and _call_openai
CallLLM(prompt, llm) ==
    IF llm.kind = "text" /\ LoadsAnswer(ExtractJson(llm.text)).ok
    THEN Returned(LoadsAnswer(ExtractJson(llm.text)).v)
    ELSE FallbackFromPrompt(prompt)

CallAnthropic(prompt, llm) == CallLLM(prompt, llm)

CallOpenai(prompt, llm) == CallLLM(prompt, llm)

InputData(in) ==
    [chart_type |-> "column", annotation_type |-> "difference_line",
     bar1 |-> in.bar1, bar2 |-> in.bar2, label_text |-> in.label_text]

\* place_difference_line
PlaceDifferenceLineResult(in, llm) ==
    LET input_data == InputData(in)
    IN IF in.provider = "mock"
       THEN CalculatePlacementLocally(InputObject(input_data))
       ELSE LET prompt == BuildPrompt(input_data)
            IN IF in.provider = "anthropic" THEN CallAnthropic(prompt, llm)
               ELSE IF in.provider = "openai" THEN CallOpenai(prompt, llm)
               ELSE CalculatePlacementLocally(InputObject(input_data))

PlacerIdle == [state |-> "idle", value |-> NoValue, llm |-> NoLLM]

NoPlacerCall ==
    [provider |-> "mock", bar1 |-> CHOOSE b \in Bars1 : TRUE,
     bar2 |-> CHOOSE b \in Bars2 : TRUE, label_text |-> <<>>]

PlacerQuiet == placerIn = NoPlacerCall /\ placerOut = PlacerIdle

PlaceDifferenceLine ==
    /\ placerOut.state = "idle"
    /\ \E llm \in LLMOutcomes :
         LET called == placerIn.provider \in {"anthropic", "openai"}
             r == PlaceDifferenceLineResult(placerIn, llm)
         IN placerOut' = [state |-> r.state, value |-> r.value,
                          llm |-> IF called THEN llm ELSE NoLLM]
    /\ UNCHANGED <<placerIn, labelVars, boundsVars, chartVars, deckVars,
                 extVars>>

\* ------------------------------------------------------------------------
\* LLMPoweredLabelEngine (llapi/label_engine.py)
\* ------------------------------------------------------------------------
Abs(x) == IF x < 0 THEN -x ELSE x

\* num / den (den > 0, num >= 0) rounded to an integer, ties to even: what
\* the format specs ".0f" and ".1f" do on the values of the model
RoundHalfEven(num, den) ==
    LET q == num \div den
        r == num % den
    IN IF 2 * r > den \/ (2 * r = den /\ q % 2 = 1) THEN q + 1 ELSE q

\* f"{x:.1f}" of x = tenths / 10
FormatTenths(tenths) == <<ToString(tenths \div 10), ".", ToString(tenths % 10)>>

StartValues == {0, 8, 45, 2000, 2500000}
EndValues == {7, 17, 500}
Currencies == {"EUR", "USD"}
Directions == {"reduction", "increase", "change", "decline"}

\* CAGR values in thousandths (310 is 0.31)
CagrValues == {-50, -1, 0, 125, 310, 315}

DataSeries == {[i \in 1..k |-> 22 + 11 * (i - 1)] : k \in 0..MaxSeriesLen}

LabelResponse(primary, secondary, label) ==
    [primary |-> primary, secondary |-> secondary, label |-> label]

NoResponse == LabelResponse(<<>>, <<>>, <<>>)

LabelReturned(r) == [state |-> "returned", value |-> r]
LabelRaised == [state |-> "raised", value |-> NoResponse]

\* variant taking the percentage of the end value
GenerateDifferenceLabelPctOfEnd(req) ==
    LET diff == Abs(req.start_value - req.end_value)
        pct_change == IF req.end_value # 0
                      THEN RoundHalfEven(100 * diff, Abs(req.end_value)) ELSE 0
        diff_formatted ==
            IF diff >= 1000000
            THEN <<req.currency>> \o FormatTenths(RoundHalfEven(diff, 100000)) \o <<"M">>
            ELSE IF diff >= 1000
            THEN <<req.currency>> \o FormatTenths(RoundHalfEven(diff, 100)) \o <<"K">>
            ELSE <<req.currency, ToString(diff)>>
        word == IF req.direction \in {"reduction", "increase"}
                THEN req.direction ELSE "change"
        action == IF word = "reduction" THEN "savings" ELSE word
    IN LabelReturned(LabelResponse(diff_formatted \o <<" ", action>>,
                                   <<"(", ToString(pct_change), "% ", word, ")">>,
                                   <<>>))

\* _generate_difference_label_locally
GenerateDifferenceLabelLocally(req) ==
    LET start == req.start_value
        end == req.end_value
        currency == req.currency
        direction == req.direction
        diff == Abs(start - end)
        pct_change == IF start # 0 THEN RoundHalfEven(100 * diff, Abs(start)) ELSE 0
        diff_formatted ==
            IF diff >= 1000000
            THEN <<currency>> \o FormatTenths(RoundHalfEven(diff, 100000)) \o <<"M">>
            ELSE IF diff >= 1000
            THEN <<currency>> \o FormatTenths(RoundHalfEven(diff, 100)) \o <<"K">>
            ELSE <<currency, ToString(diff)>>
        action == IF direction = "reduction" THEN "savings"
                  ELSE IF direction = "increase" THEN "increase"
                  ELSE "change"
        pct_word == IF direction = "reduction" THEN "reduction"
                    ELSE IF direction = "increase" THEN "increase"
                    ELSE "change"
        primary == diff_formatted \o <<" ", action>>
        secondary == <<"(", ToString(pct_change), "% ", pct_word, ")">>
    IN LabelReturned(LabelResponse(primary, secondary, <<>>))

\* variant counting every entry of the series as a year
GenerateCagrLabelYearsIsLength(req) ==
    LET sign == IF req.cagr_value >= 0 THEN "+" ELSE "-"
    IN LabelReturned(LabelResponse(<<>>, <<>>,
           <<ToString(Len(req.data_series)), "-Year CAGR: ", sign,
             ToString(RoundHalfEven(Abs(req.cagr_value), 10)), "%">>))

\* _generate_cagr_label_locally; cagr_value is in thousandths
GenerateCagrLabelLocally(req) ==
    LET years == Len(req.data_series) - 1
        cagr_pct == req.cagr_value
        sign == IF cagr_pct >= 0 THEN <<"+">> ELSE <<>>
        minus == IF cagr_pct < 0 THEN <<"-">> ELSE <<>>
        label == <<ToString(years), "-Year CAGR: ">> \o sign \o minus \o
                 <<ToString(RoundHalfEven(Abs(cagr_pct), 10)), "%">>
    IN LabelReturned(LabelResponse(<<>>, <<>>, label))

\* A JSON answer to a label prompt: its Python type, its keys, and for each
\* of the three keys the code reads the entry's type and text.
LabelDoc(t, keys, primary, secondary, label) ==
    [t |-> t, keys |-> keys, primary |-> primary, secondary |-> secondary,
     label |-> label]

StrEntry(s) == [t |-> "str", s |-> s]
NumEntry == [t |-> "num", s |-> <<>>]

LabelDocumentValue ==
    [L_number |-> LabelDoc("number", {}, NumEntry, NumEntry, NumEntry),
     L_list |-> LabelDoc("list", {}, NumEntry, NumEntry, NumEntry),
     L_null |-> LabelDoc("none", {}, NumEntry, NumEntry, NumEntry),
     L_empty |-> LabelDoc("dict", {}, NumEntry, NumEntry, NumEntry),
     L_primary_only |-> LabelDoc("dict", {"primary"}, StrEntry(<<"saved">>),
                                 NumEntry, NumEntry),
     L_numbers |-> LabelDoc("dict", {"primary", "secondary", "label"},
                            NumEntry, NumEntry, NumEntry),
     L_texts |-> LabelDoc("dict", {"primary", "secondary", "label"},
                          StrEntry(<<"saved">>), StrEntry(<<"(less)">>),
                          StrEntry(<<"growth">>))]

LabelResponseTexts ==
    {<<d>> : d \in DOMAIN LabelDocumentValue} \cup
    {<<"prose">>,
     <<"FENCE", "json", "NL", "L_texts", "NL", "FENCE">>,
     <<"FENCE", "json", "NL", "prose">>}

LabelLLMOutcomes ==
    {[kind |-> k, text |-> <<>>] : k \in {"import_error", "api_error", "no_content"}}
    \cup {[kind |-> "text", text |-> t] : t \in LabelResponseTexts}

\* _call_anthropic / _call_openai of the label engine: the parsed answer, or
\* ok = FALSE where they raise RuntimeError
CallLabelLLM(llm) ==
    LET text == ExtractJson(llm.text)
    IN IF llm.kind = "text" /\ Len(text) = 1 /\ text[1] \in DOMAIN LabelDocumentValue
       THEN [ok |-> TRUE, v |-> LabelDocumentValue[text[1]]]
       ELSE [ok |-> FALSE, v |-> LabelDocumentValue["L_null"]]

\* result.get(key, ""): ok = FALSE where the result has no get (AttributeError)
DictGet(answer, key) ==
    IF answer.t # "dict" THEN [ok |-> FALSE, v |-> NumEntry]
    ELSE [ok |-> TRUE, v |-> IF key \in answer.keys THEN answer[key] ELSE StrEntry(<<>>)]

\* variant of generate_difference_label without the except branch
GenerateDifferenceLabelNoCatch(req, provider, llm) ==
    IF provider \notin {"anthropic", "openai"}
    THEN GenerateDifferenceLabelLocally(req)
    ELSE LET call == CallLabelLLM(llm)
             primary == DictGet(call.v, "primary")
             secondary == DictGet(call.v, "secondary")
         IN IF /\ call.ok /\ primary.ok /\ secondary.ok
               /\ primary.v.t = "str" /\ secondary.v.t = "str"
            THEN LabelReturned(LabelResponse(primary.v.s, secondary.v.s, <<>>))
            ELSE LabelRaised

\* generate_difference_label
GenerateDifferenceLabelResult(req, provider, llm) ==
    IF provider = "mock" THEN GenerateDifferenceLabelLocally(req)
    ELSE IF provider \notin {"anthropic", "openai"}
    THEN GenerateDifferenceLabelLocally(req)
    ELSE LET call == CallLabelLLM(llm)
             primary == DictGet(call.v, "primary")
             secondary == DictGet(call.v, "secondary")
         IN IF /\ call.ok /\ primary.ok /\ secondary.ok
               /\ primary.v.t = "str" /\ secondary.v.t = "str"
            THEN LabelReturned(LabelResponse(primary.v.s, secondary.v.s, <<>>))
            ELSE GenerateDifferenceLabelLocally(req)

\* generate_cagr_label
GenerateCagrLabelResult(req, provider, llm) ==
    IF provider = "mock" THEN GenerateCagrLabelLocally(req)
    ELSE IF provider \notin {"anthropic", "openai"}
    THEN GenerateCagrLabelLocally(req)
    ELSE LET call == CallLabelLLM(llm)
             label == DictGet(call.v, "label")
         IN IF call.ok /\ label.ok /\ label.v.t = "str"
            THEN LabelReturned(LabelResponse(<<>>, <<>>, label.v.s))
            ELSE GenerateCagrLabelLocally(req)

DifferenceCalls ==
    [op : {"difference"}, provider : Providers, start_value : StartValues,
     end_value : EndValues, currency : Currencies, direction : Directions,
     data_series : {<<>>}, cagr_value : {0}]

CagrCalls ==
    [op : {"cagr"}, provider : Providers, start_value : {0}, end_value : {0},
     currency : {"EUR"}, direction : {"reduction"},
     data_series : DataSeries, cagr_value : CagrValues]

NoLabelCall ==
    [op |-> "none", provider |-> "mock", start_value |-> 0, end_value |-> 0,
     currency |-> "EUR", direction |-> "reduction", data_series |-> <<>>,
     cagr_value |-> 0]

LabelIdle == [state |-> "idle", value |-> NoResponse, llm |-> NoLLM]

LabelQuiet == labelIn = NoLabelCall /\ labelOut = LabelIdle

GenerateDifferenceLabel ==
    /\ labelIn.op = "difference"
    /\ labelOut.state = "idle"
    /\ \E llm \in LabelLLMOutcomes :
         LET called == labelIn.provider \in {"anthropic", "openai"}
             r == GenerateDifferenceLabelResult(labelIn, labelIn.provider, llm)
         IN labelOut' = [state |-> r.state, value |-> r.value,
                         llm |-> IF called THEN llm ELSE NoLLM]
    /\ UNCHANGED <<labelIn, placerVars, boundsVars, chartVars, deckVars,
                 extVars>>

GenerateCagrLabel ==
    /\ labelIn.op = "cagr"
    /\ labelOut.state = "idle"
    /\ \E llm \in LabelLLMOutcomes :
         LET called == labelIn.provider \in {"anthropic", "openai"}
             r == GenerateCagrLabelResult(labelIn, labelIn.provider, llm)
         IN labelOut' = [state |-> r.state, value |-> r.value,
                         llm |-> IF called THEN llm ELSE NoLLM]
    /\ UNCHANGED <<labelIn, placerVars, boundsVars, chartVars, deckVars,
                 extVars>>

\* ------------------------------------------------------------------------
\* Canvas, Safe Zone and regions (templates/main_template_config.py)
\* ------------------------------------------------------------------------
DPI == 144
EMU_PER_INCH == 914400

\* px_to_inches: Inches(px / DPI), an integer number of EMU.  The division
\* is exact for every pixel value the modelled paths convert.
PxToInches(px) == (px * EMU_PER_INCH) \div DPI

\* Inches(n / 2) for the half-inch literals of the title slide
HalfInches(n) == (n * EMU_PER_INCH) \div 2

CANVAS == [width_px |-> 1920, height_px |-> 1080]

SAFE_ZONE ==
    [top_left |-> [x_px |-> 96, y_px |-> 54],
     bottom_right |-> [x_px |-> 1824, y_px |-> 1026],
     width_px |-> 1728, height_px |-> 972]

REGIONS ==
    [title |-> [x1_px |-> 96, y1_px |-> 54, x2_px |-> 1824, y2_px |-> 134,
                height_px |-> 80],
     content |-> [x1_px |-> 96, y1_px |-> 154, x2_px |-> 1824, y2_px |-> 956,
                  height_px |-> 802],
     footer |-> [x1_px |-> 96, y1_px |-> 972, x2_px |-> 1824, y2_px |-> 1026,
                 height_px |-> 54]]

\* validate_bounds
ValidateBounds(x_px, y_px, width_px, height_px) ==
    LET within_x_start == SAFE_ZONE.top_left.x_px <= x_px
                          /\ x_px <= SAFE_ZONE.bottom_right.x_px
        within_y_start == SAFE_ZONE.top_left.y_px <= y_px
                          /\ y_px <= SAFE_ZONE.bottom_right.y_px
    IN IF width_px > 0 /\ height_px > 0
       THEN /\ within_x_start /\ within_y_start
            /\ x_px + width_px <= SAFE_ZONE.bottom_right.x_px
            /\ y_px + height_px <= SAFE_ZONE.bottom_right.y_px
       ELSE within_x_start /\ within_y_start

\* MainSlideGeneratorSkill._validate_element_bounds
ValidateElementBounds(x_px, y_px, width_px, height_px) ==
    ValidateBounds(x_px, y_px, width_px, height_px)

BoundsCalls ==
    [x_px : {0, 95, 96, 1000, 1824, 1825},
     y_px : {0, 53, 54, 500, 1026, 1027},
     width_px : {0, 1, 824, 825, 2000},
     height_px : {0, 1, 526, 527, 2000}]

NoBoundsCall == [x_px |-> 0, y_px |-> 0, width_px |-> 0, height_px |-> 0]

BoundsIdle == [state |-> "idle", value |-> FALSE]

BoundsQuiet == boundsIn = NoBoundsCall /\ boundsOut = BoundsIdle

CallValidateBounds ==
    /\ boundsOut.state = "idle"
    /\ boundsOut' =
           [state |-> "returned",
            value |-> ValidateElementBounds(boundsIn.x_px, boundsIn.y_px,
                                            boundsIn.width_px, boundsIn.height_px)]
    /\ UNCHANGED <<boundsIn, placerVars, labelVars, chartVars, deckVars,
                 extVars>>

\* ------------------------------------------------------------------------
\* Story-driven colour engine of _create_column_chart
\* ------------------------------------------------------------------------
MaxSeries == 3
MaxPoints == 2

COLORS ==
    [primary_green_rgb |-> <<20, 123, 88>>,
     light_grey_rgb |-> <<211, 211, 211>>,
     white_rgb |-> <<255, 255, 255>>,
     seq_shade_1_rgb |-> <<2, 86, 69>>,
     seq_shade_2_rgb |-> <<81, 123, 112>>,
     seq_shade_3_rgb |-> <<81, 163, 163>>,
     seq_shade_4_rgb |-> <<162, 218, 217>>]

STORY_DRIVEN_COLORS ==
    [default_neutral_rgb |-> COLORS.light_grey_rgb,
     highlight_rgb |-> COLORS.primary_green_rgb,
     comparison_palette_rgb |->
         <<COLORS.seq_shade_1_rgb, COLORS.seq_shade_2_rgb,
           COLORS.seq_shade_3_rgb, COLORS.seq_shade_4_rgb>>]

\* chart_data of a column chart: the number of series, the number of
\* categories (every series has one point per category), the 'color_mode'
\* entry ("absent" when the key is missing) and the 'highlight_index' entry
ChartCalls ==
    {c \in [num_series : 1..MaxSeries, num_points : 0..MaxPoints,
            color_mode : {"absent", "comparison", "highlight"},
            has_highlight_index : BOOLEAN, highlight_index : -1..MaxSeries] :
        c.has_highlight_index \/ c.highlight_index = 0}

\* the colour strategy chosen at lines 713-722
ColorMode(chart_data) ==
    IF chart_data.color_mode = "comparison" THEN "comparison"
    ELSE IF chart_data.num_series = 1 /\ chart_data.num_points > 1
    THEN "category_comparison"
    ELSE "highlight"

\* chart_data.get('highlight_index', len(chart.series) - 1)
HighlightIdx(chart_data) ==
    IF chart_data.has_highlight_index THEN chart_data.highlight_index
    ELSE chart_data.num_series - 1

\* the palette entry for the 0-based index idx
PaletteColor(idx) ==
    LET palette == STORY_DRIVEN_COLORS.comparison_palette_rgb
    IN palette[(idx % Len(palette)) + 1]

\* the fill of each point of each series after the loop at lines 743-788;
\* series and points are numbered from 1 here, from 0 in the code
CreateColumnChartFills(chart_data) ==
    LET mode == ColorMode(chart_data)
        highlight_idx == HighlightIdx(chart_data)
    IN [i \in 1..chart_data.num_series |->
           [j \in 1..chart_data.num_points |->
               IF mode = "comparison" THEN PaletteColor(i - 1)
               ELSE IF mode = "category_comparison" THEN PaletteColor(j - 1)
               ELSE IF i - 1 = highlight_idx
                    THEN STORY_DRIVEN_COLORS.highlight_rgb
                    ELSE STORY_DRIVEN_COLORS.default_neutral_rgb]]

\* the series-level fill (the legend swatch); category comparison sets none
CreateColumnChartSeriesFills(chart_data) ==
    LET mode == ColorMode(chart_data)
        highlight_idx == HighlightIdx(chart_data)
    IN [i \in 1..chart_data.num_series |->
           IF mode = "comparison" THEN PaletteColor(i - 1)
           ELSE IF mode = "category_comparison" THEN <<>>
           ELSE IF i - 1 = highlight_idx
                THEN STORY_DRIVEN_COLORS.highlight_rgb
                ELSE STORY_DRIVEN_COLORS.default_neutral_rgb]

NoChartCall ==
    [num_series |-> 1, num_points |-> 0, color_mode |-> "absent",
     has_highlight_index |-> FALSE, highlight_index |-> 0]

ChartIdle ==
    [state |-> "idle", color_mode |-> "", has_legend |-> FALSE,
     series_fill |-> <<>>, point_fill |-> <<>>]

ChartQuiet == chartIn = NoChartCall /\ chartOut = ChartIdle

CreateColumnChart ==
    /\ chartOut.state = "idle"
    /\ chartOut' =
           [state |-> "returned",
            color_mode |-> ColorMode(chartIn),
            has_legend |-> ColorMode(chartIn) # "category_comparison",
            series_fill |-> CreateColumnChartSeriesFills(chartIn),
            point_fill |-> CreateColumnChartFills(chartIn)]
    /\ UNCHANGED <<chartIn, placerVars, labelVars, boundsVars, deckVars,
                 extVars>>

\* ------------------------------------------------------------------------
\* MainSlideGeneratorSkill.create_presentation (skills/main_slide_generator.py)
\* ------------------------------------------------------------------------
MaxSlides == 3

LAYOUT_DISTRIBUTION ==
    [single_component |-> [max_width_px |-> 1382, max_height_px |-> 641],
     two_components_side_by_side |->
         [gutter_px |-> 60,
          left_column |-> [x1_px |-> 96, y1_px |-> 154, x2_px |-> 906,
                           y2_px |-> 956, width_px |-> 810],
          right_column |-> [x1_px |-> 966, y1_px |-> 154, x2_px |-> 1824,
                            y2_px |-> 956, width_px |-> 858]],
     two_components_top_bottom |->
         [gutter_px |-> 30,
          top_row |-> [x1_px |-> 96, y1_px |-> 154, x2_px |-> 1824,
                       y2_px |-> 540, height_px |-> 386],
          bottom_row |-> [x1_px |-> 96, y1_px |-> 570, x2_px |-> 1824,
                          y2_px |-> 956, height_px |-> 386]],
     chart_plus_insight_60_40 |->
         [gutter_px |-> 60,
          chart_area |-> [x1_px |-> 96, y1_px |-> 154, x2_px |-> 834,
                          y2_px |-> 956, width_px |-> 738, height_px |-> 802],
          text_area |-> [x1_px |-> 894, y1_px |-> 154, x2_px |-> 1824,
                         y2_px |-> 956, width_px |-> 930, height_px |-> 802]]]

\* SLIDE_BLUEPRINTS['content_bullets']['two_column_option']
SLIDE_BLUEPRINTS ==
    [content_bullets |->
        [two_column_option |->
            [gutter_px |-> 120,
             left_column |-> [x1_px |-> 96, y1_px |-> 154, x2_px |-> 920,
                              y2_px |-> 956, width_px |-> 824],
             right_column |-> [x1_px |-> 1000, y1_px |-> 154, x2_px |-> 1824,
                               y2_px |-> 956, width_px |-> 824]]]]

TextBox(role, left, top, width, height) ==
    [kind |-> "textbox", role |-> role, left |-> left, top |-> top,
     width |-> width, height |-> height]

ChartShape(left, top, width, height) ==
    [kind |-> "chart", role |-> "chart", left |-> left, top |-> top,
     width |-> width, height |-> height]

Slide(layout, title, background, shapes) ==
    [layout |-> layout, title |-> title, background |-> background,
     shapes |-> shapes]

\* The slide contents requests are built from: the number of bullet
\* points, whether 'content' and 'source' are given, and chart_data
\* ("none", "empty" for {}, "column" for a column chart dict).
SlideContents ==
    {[title |-> "Plan", bullet_points |-> 2, content |-> FALSE,
      chart_data |-> "none", source |-> TRUE],
     [title |-> "Notes", bullet_points |-> 0, content |-> TRUE,
      chart_data |-> "none", source |-> FALSE],
     [title |-> "Blank", bullet_points |-> 0, content |-> FALSE,
      chart_data |-> "none", source |-> FALSE],
     [title |-> "No data", bullet_points |-> 2, content |-> FALSE,
      chart_data |-> "empty", source |-> FALSE],
     [title |-> "Revenue", bullet_points |-> 2, content |-> FALSE,
      chart_data |-> "column", source |-> TRUE],
     [title |-> "Margin", bullet_points |-> 0, content |-> FALSE,
      chart_data |-> "column", source |-> FALSE]}

Requests ==
    [topic : {"Strategy"},
     slides : UNION {[1..n -> SlideContents] : n \in 0..MaxSlides},
     company : BOOLEAN, author : BOOLEAN]

\* _add_title_slide
AddTitleSlideResult(req) ==
    LET title_box == TextBox("title", 0, HalfInches(5),
                             PxToInches(CANVAS.width_px), HalfInches(4))
        subtitle_y == HalfInches(5) + HalfInches(4) + PxToInches(40)
        subtitle_box == TextBox("subtitle", 0, subtitle_y,
                                PxToInches(CANVAS.width_px), HalfInches(2))
    IN Slide("title", req.topic, COLORS.primary_green_rgb,
             IF req.company THEN <<title_box, subtitle_box>> ELSE <<title_box>>)

\* _add_slide_title
SlideTitleBox(title_region) ==
    TextBox("title", PxToInches(title_region.x1_px), PxToInches(title_region.y1_px),
            PxToInches(title_region.x2_px - title_region.x1_px),
            PxToInches(title_region.height_px))

\* _has_chart_data: a non-empty chart_data dict
HasChartData(slide_content) == slide_content.chart_data \notin {"none", "empty"}

\* _add_bullets_layout: one text box over the content region when there are
\* bullets, or a 'content' text to stand in for them
BulletsLayout(slide_content, content_region) ==
    IF slide_content.bullet_points > 0 \/ slide_content.content
    THEN <<TextBox("bullets", PxToInches(content_region.x1_px),
                   PxToInches(content_region.y1_px),
                   PxToInches(content_region.x2_px - content_region.x1_px),
                   PxToInches(content_region.height_px))>>
    ELSE <<>>

\* the layout key _add_chart_insight_layout reads (line 292)
ChartInsightKey == "chart_plus_insight_50_50"

\* _add_chart_insight_layout: the configuration lookup raises KeyError when
\* the key is no entry of LAYOUT_DISTRIBUTION, the assert raises when the
\* text area does not start one gutter after the chart area; otherwise the
\* chart is centred in the chart area (90% of its width, 70% of its height)
\* and the bullets go to the text area
ChartInsightLayout(slide_content) ==
    IF ChartInsightKey \notin DOMAIN LAYOUT_DISTRIBUTION
    THEN [error |-> "'chart_plus_insight_50_50'", layout |-> "chart_insight",
          shapes |-> <<>>]
    ELSE LET layout == LAYOUT_DISTRIBUTION[ChartInsightKey]
             chart_area == layout.chart_area
             text_area == layout.text_area
             height_emu == PxToInches(chart_area.height_px)
             body_emu == (height_emu * 7) \div 10
             offset_emu == (height_emu - body_emu) \div 2
             width_emu == PxToInches(chart_area.width_px)
             scaled_emu == (width_emu * 9) \div 10
             x_offset_emu == (width_emu - scaled_emu) \div 2
             chart == ChartShape(PxToInches(chart_area.x1_px) + x_offset_emu,
                                 PxToInches(chart_area.y1_px) + offset_emu,
                                 scaled_emu, body_emu)
             text == TextBox("bullets", PxToInches(text_area.x1_px),
                             PxToInches(text_area.y1_px),
                             PxToInches(text_area.width_px),
                             PxToInches(text_area.height_px))
         IN IF text_area.x1_px # chart_area.x2_px + layout.gutter_px
            THEN [error |-> "Gutter violation", layout |-> "chart_insight",
                  shapes |-> <<>>]
            ELSE [error |-> "", layout |-> "chart_insight",
                  shapes |-> IF slide_content.bullet_points > 0
                             THEN <<chart, text>> ELSE <<chart>>]

\* _add_footer
FooterBoxes(slide_content) ==
    LET footer_region == REGIONS.footer
    IN IF slide_content.source
       THEN <<TextBox("footer", PxToInches(footer_region.x1_px),
                      PxToInches(footer_region.y1_px),
                      PxToInches(footer_region.x2_px - footer_region.x1_px),
                      PxToInches(footer_region.height_px))>>
       ELSE <<>>

\* _add_content_slide: the slide as far as it got, and the message of the
\* exception that stopped it ("" when none did)
AddContentSlideResult(slide_content) ==
    LET title == <<SlideTitleBox(REGIONS.title)>>
    IN IF HasChartData(slide_content)
       THEN LET r == ChartInsightLayout(slide_content)
            IN [error |-> r.error,
                slide |-> Slide(r.layout, slide_content.title, COLORS.white_rgb,
                                IF r.error = ""
                                THEN title \o r.shapes \o FooterBoxes(slide_content)
                                ELSE title)]
       ELSE [error |-> "",
             slide |-> Slide("bullets", slide_content.title, COLORS.white_rgb,
                             title \o BulletsLayout(slide_content, REGIONS.content)
                                   \o FooterBoxes(slide_content))]

\* _add_closing_slide
AddClosingSlideResult(req) ==
    LET closing_box == TextBox("closing", PxToInches(96), PxToInches(486),
                               PxToInches(1728), PxToInches(108))
        subtitle_box == TextBox("subtitle", PxToInches(96),
                                PxToInches(486) + PxToInches(120),
                                PxToInches(1728), PxToInches(60))
    IN Slide("closing", "Thank you", COLORS.primary_green_rgb,
             IF req.author \/ req.company
             THEN <<closing_box, subtitle_box>> ELSE <<closing_box>>)

Pending ==
    [state |-> "pending", success |-> FALSE, slide_count |-> 0,
     error_set |-> FALSE, error |-> "", saved |-> FALSE]

\* variant without the except clause: the exception leaves the method
PropagateException(message) ==
    [state |-> "raised", success |-> FALSE, slide_count |-> 0,
     error_set |-> FALSE, error |-> message, saved |-> FALSE]

\* the except clause of create_presentation (lines 105-110)
OnException(message) ==
    [state |-> "returned", success |-> FALSE, slide_count |-> 0,
     error_set |-> TRUE, error |-> message, saved |-> FALSE]

\* variant counting the request's slides only
SlideCountOfRequest(slides) == Len(request.slides)

\* len(prs.slides) at line 95
SlideCount(slides) == Len(slides)

\* the GenerationResult of lines 92-103
OnSuccess(slides) ==
    [state |-> "returned", success |-> TRUE, slide_count |-> SlideCount(slides),
     error_set |-> FALSE, error |-> "", saved |-> TRUE]

NoRequest == [topic |-> "", slides |-> <<>>, company |-> FALSE, author |-> FALSE]

DeckQuiet ==
    request = NoRequest /\ prs = <<>> /\ pc = "idle" /\ result = Pending

\* lines 74-79: the Presentation is created and the title slide added
AddTitleSlide ==
    /\ pc = "start"
    /\ prs' = <<AddTitleSlideResult(request)>>
    /\ pc' = "content"
    /\ UNCHANGED <<request, result, placerVars, labelVars, boundsVars, chartVars,
                 extVars>>

\* lines 82-83: one pass of the loop over request.slides
AddContentSlide ==
    /\ pc = "content"
    /\ Len(prs) <= Len(request.slides)
    /\ LET r == AddContentSlideResult(request.slides[Len(prs)])
       IN /\ prs' = Append(prs, r.slide)
          /\ IF r.error = ""
             THEN pc' = "content" /\ UNCHANGED result
             ELSE pc' = "done" /\ result' = OnException(r.error)
    /\ UNCHANGED <<request, placerVars, labelVars, boundsVars, chartVars,
                 extVars>>

\* line 86, once the loop is through
AddClosingSlide ==
    /\ pc = "content"
    /\ Len(prs) > Len(request.slides)
    /\ prs' = Append(prs, AddClosingSlideResult(request))
    /\ pc' = "save"
    /\ UNCHANGED <<request, result, placerVars, labelVars, boundsVars, chartVars,
                 extVars>>

\* the message of the OSError prs.save raises at line 90
SaveError == "[Errno 2] No such file or directory"

\* lines 89-103: prs.save writes the file or raises (no such directory, no
\* permission), then the result is returned
SavePresentation ==
    /\ pc = "save"
    /\ \E saved \in BOOLEAN :
         result' = IF saved THEN OnSuccess(prs)
                   ELSE OnException(SaveError)
    /\ pc' = "done"
    /\ UNCHANGED <<request, prs, placerVars, labelVars, boundsVars, chartVars,
                 extVars>>

\* ------------------------------------------------------------------------
\* SlideDeckAgent (agent.py) with ContentAnalyzerSkill and
\* DesignOptimizerSkill.  Topics and paths are sequences of characters.
\* ------------------------------------------------------------------------
MaxNumSlides == 11

\* str.lower() on the upper-case letters the model's texts contain
UpperCase ==
    "A" :> "a" @@ "E" :> "e" @@ "F" :> "f" @@ "I" :> "i" @@ "P" :> "p" @@ "R" :> "r" @@ "S" :> "s" @@ "T" :> "t" @@ "X" :> "x"

Lower(s) ==
    [i \in 1..Len(s) |-> IF s[i] \in DOMAIN UpperCase THEN UpperCase[s[i]] ELSE s[i]]

\* word in text
Contains(text, word) == FindFrom(text, word, 1) # 0

Topics ==
    {<<"A", "I">>,
     <<"R", "e", "t", "a", "i", "l">>,
     <<"E", "c", "o", " ", "A", "r", "t">>,
     <<"A", "r", "t">>,
     <<"S", "c", "i", "e", "n", "c", "e">>,
     <<"F", "i", "n", "a", "n", "c", "e">>,
     <<"T", "a", "x">>,
     <<>>}

\* the keyword lists of suggest_color_scheme, in the order they are tried
SchemeKeywords ==
    <<[scheme |-> "modern_tech",
       words |-> {<<"t", "e", "c", "h">>, <<"a", "i">>, <<"d", "i", "g", "i", "t", "a", "l">>, <<"s", "o", "f", "t", "w", "a", "r", "e">>, <<"i", "n", "n", "o", "v", "a", "t", "i", "o", "n">>}],
      [scheme |-> "corporate_blue",
       words |-> {<<"b", "u", "s", "i", "n", "e", "s", "s">>, <<"f", "i", "n", "a", "n", "c", "e">>, <<"c", "o", "r", "p", "o", "r", "a", "t", "e">>, <<"s", "t", "r", "a", "t", "e", "g", "y">>}],
      [scheme |-> "professional_green",
       words |-> {<<"e", "n", "v", "i", "r", "o", "n", "m", "e", "n", "t">>, <<"s", "u", "s", "t", "a", "i", "n", "a", "b", "i", "l", "i", "t", "y">>, <<"g", "r", "e", "e", "n">>, <<"e", "c", "o">>, <<"n", "a", "t", "u", "r", "e">>}],
      [scheme |-> "vibrant_creative",
       words |-> {<<"c", "r", "e", "a", "t", "i", "v", "e">>, <<"d", "e", "s", "i", "g", "n">>, <<"a", "r", "t">>, <<"m", "a", "r", "k", "e", "t", "i", "n", "g">>}],
      [scheme |-> "minimalist_gray",
       words |-> {<<"e", "d", "u", "c", "a", "t", "i", "o", "n">>, <<"r", "e", "s", "e", "a", "r", "c", "h">>, <<"a", "c", "a", "d", "e", "m", "i", "c">>, <<"s", "c", "i", "e", "n", "c", "e">>}]>>

RECURSIVE SuggestFrom(_, _)
SuggestFrom(topic_lower, k) ==
    IF k > Len(SchemeKeywords) THEN "corporate_blue"
    ELSE IF \E word \in SchemeKeywords[k].words : Contains(topic_lower, word)
         THEN SchemeKeywords[k].scheme
         ELSE SuggestFrom(topic_lower, k + 1)

\* DesignOptimizerSkill.suggest_color_scheme
SuggestColorScheme(topic) == SuggestFrom(Lower(topic), 1)

COLOR_SCHEMES ==
    [corporate_blue |-> [primary |-> "#1F4788", secondary |-> "#2E7D32",
                         background |-> "#FFFFFF", text |-> "#333333"],
     modern_tech |-> [primary |-> "#2C3E50", secondary |-> "#3498DB",
                      background |-> "#FFFFFF", text |-> "#2C3E50"],
     vibrant_creative |-> [primary |-> "#9B59B6", secondary |-> "#F39C12",
                           background |-> "#FFFFFF", text |-> "#34495E"],
     minimalist_gray |-> [primary |-> "#455A64", secondary |-> "#78909C",
                          background |-> "#FAFAFA", text |-> "#263238"],
     earth_tones |-> [primary |-> "#5D4037", secondary |-> "#8D6E63",
                      background |-> "#FFF8E1", text |-> "#3E2723"],
     ocean_blue |-> [primary |-> "#006064", secondary |-> "#0097A7",
                     background |-> "#E0F7FA", text |-> "#004D40"],
     sunset |-> [primary |-> "#BF360C", secondary |-> "#F4511E",
                 background |-> "#FFF3E0", text |-> "#3E2723"],
     professional_green |-> [primary |-> "#1B5E20", secondary |-> "#388E3C",
                             background |-> "#FFFFFF", text |-> "#263238"]]

\* a SlideContent of the analyzer: its type and its title (None: has_title
\* is FALSE); fixed texts are one token
AnalyzerSlide(slide_type, has_title, title) ==
    [slide_type |-> slide_type, has_title |-> has_title, title |-> title]

\* the ten slides analyze_topic builds (lines 24-131); the legacy types
\* BULLET_POINTS, TITLE_CONTENT and TWO_COLUMN are aliases of STANDARD_CONTENT
TopicSlides(topic) ==
    <<AnalyzerSlide("title", TRUE, topic),
      AnalyzerSlide("standard_content", TRUE, <<"Agenda">>),
      AnalyzerSlide("section_header", TRUE, <<"Introduction & Background">>),
      AnalyzerSlide("standard_content", TRUE, <<"Background">>),
      AnalyzerSlide("section_header", TRUE, <<"Key Concepts">>),
      AnalyzerSlide("standard_content", TRUE, <<"Core Principles">>),
      AnalyzerSlide("standard_content", TRUE, <<"Key Points">>),
      AnalyzerSlide("quote", FALSE, <<>>),
      AnalyzerSlide("standard_content", TRUE, <<"Next Steps">>),
      AnalyzerSlide("thank_you", TRUE, <<"Thank You">>)>>

\* lst[:n]: a negative n counts from the end
SliceTo(lst, n) ==
    LET stop == IF n < 0 THEN Len(lst) + n ELSE n
        last == IF stop < 0 THEN 0 ELSE IF stop > Len(lst) THEN Len(lst) ELSE stop
    IN SubSeq(lst, 1, last)

\* ContentAnalyzerSkill.analyze_topic
AnalyzeTopic(topic, num_slides) == SliceTo(TopicSlides(topic), num_slides)

\* the fields the pydantic model PresentationRequest declares
PresentationRequestFields ==
    {"topic", "slides", "output_path", "template", "author", "company"}

\* PresentationRequest(...): keyword arguments that are no field are ignored
NewPresentationRequest(topic, slides, output_path, author, company) ==
    [topic |-> topic, slides |-> slides, output_path |-> output_path,
     template |-> "main", author |-> author, company |-> company]

\* request.<name> = value on a pydantic model: ValueError unless a field
HasField(obj, name) == name \in DOMAIN obj

\* DesignOptimizerSkill.apply_color_scheme: the four assignments in order;
\* ok is FALSE where the first of them raises ValueError
ApplyColorScheme(req, scheme_name) ==
    LET scheme == IF scheme_name \in DOMAIN COLOR_SCHEMES
                  THEN COLOR_SCHEMES[scheme_name]
                  ELSE COLOR_SCHEMES["corporate_blue"]
        targets == <<"primary_color", "secondary_color", "background_color",
                     "text_color">>
    IN IF \A k \in 1..Len(targets) : HasField(req, targets[k])
       THEN [ok |-> TRUE, error |-> "", scheme |-> scheme]
       ELSE [ok |-> FALSE, error |-> "ValueError", scheme |-> scheme]

ColorSchemeArgs == {"none", "modern_tech", "sunset", "no_such_scheme"}
TemplateArgs == {"none", "main", "MAIN", "modern"}

\* template.lower()
TemplateLower(template) == IF template = "MAIN" THEN "main" ELSE template

OutputPaths ==
    {<<"a", ".", "p", "p", "t", "x">>,
     <<"a", ".", "P", "P", "T", "X">>,
     <<"a", ".", "p", "p", "t">>,
     <<"d", "e", "c", "k">>,
     <<".", "p", "p", "t", "x">>,
     <<>>,
     <<"o", "/", "a", ".", "p", "p", "t", "x">>,
     <<"a", ".", "b", "/", "d", "e", "c", "k">>}

LastIndexOf(s, c) ==
    LET hits == {i \in 1..Len(s) : s[i] = c}
    IN IF hits = {} THEN 0 ELSE CHOOSE i \in hits : \A j \in hits : j <= i

\* Path(p).name for a path without trailing slash
PathName(p) == SubSeq(p, LastIndexOf(p, "/") + 1, Len(p))

\* Path(p).suffix: from the last dot of the name, unless that dot starts or
\* ends the name
PathSuffix(p) ==
    LET name == PathName(p)
        i == LastIndexOf(name, ".")
    IN IF 1 < i /\ i < Len(name) THEN SubSeq(name, i, Len(name)) ELSE <<>>

AgentCall(op, topic, num_slides, color_scheme, template, output_path) ==
    [op |-> op, topic |-> topic, num_slides |-> num_slides,
     color_scheme |-> color_scheme, template |-> template,
     output_path |-> output_path]

DefaultPath == <<"a", ".", "p", "p", "t", "x">>

\* calls of create_presentation_from_topic
FromTopicCalls ==
    {AgentCall("from_topic", t, n, c, tpl, DefaultPath) :
        t \in Topics, n \in 0..MaxNumSlides, c \in ColorSchemeArgs,
        tpl \in TemplateArgs}

\* calls of validate_presentation_request: the request has num_slides slides
ValidateCalls ==
    {AgentCall("validate", t, n, "none", "none", p) :
        t \in {<<>>, <<"T", "a", "x">>}, n \in 0..2, p \in OutputPaths}

\* calls of analyze_topic
AnalyzeCalls ==
    {AgentCall("analyze", t, n, "none", "none", DefaultPath) :
        t \in Topics, n \in -1..MaxNumSlides}

NoAgentCall == AgentCall("none", <<>>, 0, "none", "none", <<>>)

AgentOutcome(state, error, slides, errors, color_scheme, success, slide_count) ==
    [state |-> state, error |-> error, slides |-> slides, errors |-> errors,
     color_scheme |-> color_scheme, success |-> success,
     slide_count |-> slide_count]

AgentIdle == AgentOutcome("idle", "", <<>>, <<>>, "", FALSE, 0)

AgentQuiet == agentIn = NoAgentCall /\ agentOut = AgentIdle

\* create_presentation_from_topic (lines 69-103); generated tells whether
\* the generator's create_presentation, when reached, builds and saves the
\* deck or reports a failure (it returns a GenerationResult either way)
CreatePresentationFromTopicResult(in, generated) ==
    LET slides == AnalyzeTopic(in.topic, in.num_slides)
        skip_color_scheme ==
            in.template # "none" /\ TemplateLower(in.template) \in {"main"}
        color_scheme ==
            IF in.color_scheme = "none" /\ ~skip_color_scheme
            THEN SuggestColorScheme(in.topic)
            ELSE in.color_scheme
        req == NewPresentationRequest(in.topic, slides, in.output_path,
                                      FALSE, FALSE)
        applied == ApplyColorScheme(req, color_scheme)
    IN IF ~skip_color_scheme /\ ~applied.ok
       THEN AgentOutcome("raised", applied.error, slides, <<>>,
                         color_scheme, FALSE, 0)
       ELSE AgentOutcome("returned", "", slides, <<>>, color_scheme,
                         generated,
                         IF generated THEN Len(slides) + 2 ELSE 0)

\* the checks of validate_presentation_request before the colour loop
\* (lines 224-238)
ValidationErrors(req) ==
    (IF req.topic = <<>> THEN <<"Topic is required">> ELSE <<>>)
    \o (IF req.slides = <<>> THEN <<"At least one slide is required">> ELSE <<>>)
    \o (IF req.output_path = <<>> THEN <<"Output path is required">> ELSE <<>>)
    \o (IF Lower(PathSuffix(req.output_path)) # <<".", "p", "p", "t", "x">>
        THEN <<"Output path must have .pptx extension">> ELSE <<>>)

\* validate_presentation_request: getattr(request, color_field) at line 242
\* raises AttributeError when the model has no such field
ValidatePresentationRequestResult(in) ==
    LET req == NewPresentationRequest(in.topic,
                                      AnalyzeTopic(in.topic, in.num_slides),
                                      in.output_path, FALSE, FALSE)
        errors == ValidationErrors(req)
        color_fields == <<"primary_color", "secondary_color",
                          "background_color", "text_color">>
    IN IF \A k \in 1..Len(color_fields) : HasField(req, color_fields[k])
       THEN AgentOutcome("returned", "", <<>>, errors, "", FALSE, 0)
       ELSE AgentOutcome("raised", "AttributeError", <<>>, <<>>, "", FALSE, 0)

CreatePresentationFromTopic ==
    /\ agentOut.state = "idle"
    /\ agentIn.op = "from_topic"
    /\ \E generated \in BOOLEAN :
           agentOut' = CreatePresentationFromTopicResult(agentIn, generated)
    /\ UNCHANGED <<agentIn, placerVars, labelVars, boundsVars, chartVars,
                   deckVars, genVars, vdaVars, arrowVars,
                   barTopVars>>

ValidatePresentationRequest ==
    /\ agentOut.state = "idle"
    /\ agentIn.op = "validate"
    /\ agentOut' = ValidatePresentationRequestResult(agentIn)
    /\ UNCHANGED <<agentIn, placerVars, labelVars, boundsVars, chartVars,
                   deckVars, genVars, vdaVars, arrowVars,
                   barTopVars>>

CallAnalyzeTopic ==
    /\ agentOut.state = "idle"
    /\ agentIn.op = "analyze"
    /\ agentOut' = AgentOutcome("returned", "",
                                AnalyzeTopic(agentIn.topic, agentIn.num_slides),
                                <<>>, "", FALSE, 0)
    /\ UNCHANGED <<agentIn, placerVars, labelVars, boundsVars, chartVars,
                   deckVars, genVars, vdaVars, arrowVars,
                   barTopVars>>

\* ------------------------------------------------------------------------
\* ContentGenerator.generate_from_document (llapi/content_generator.py)
\* ------------------------------------------------------------------------
MaxGenSlides == 3

\* A source text, as far as the slide count depends on it: a text that
\* names a missing file of a supported format ("missing_file"), or raw text
\* that the mock recognises as one of its two demos ("musk", "retail") or
\* parses ("other").  Parsed text is a sequence of sections, each a header
\* line followed by the given number of bullet lines.
GenSources ==
    {[kind |-> k, sections |-> <<>>] : k \in {"missing_file", "musk", "retail"}}
    \cup {[kind |-> "other", sections |-> s] :
             s \in UNION {[1..n -> 0..1] : n \in 0..(MaxGenSlides + 1)}}

\* An LLM answer as text: a JSON document, bare, in a code fence or inside
\* prose.  The document <<"{", "k", "}">> is an object whose 'slides' array
\* holds k slide objects; "none" stands for an object without 'slides',
\* "bad" for a 'slides' array holding a number.
GenDocuments ==
    {<<"{", ToString(k), "}">> : k \in 0..(MaxGenSlides + 1)}
    \cup {<<"{", "none", "}">>, <<"{", "bad", "}">>, <<"[", "]">>, <<"prose">>}

GenResponseTexts ==
    UNION {{d, <<"FENCE", "json">> \o d \o <<"FENCE">>,
            <<"FENCE">> \o d \o <<"FENCE">>,
            <<"prose">> \o d \o <<"prose">>} : d \in GenDocuments}

GenLLMOutcomes ==
    {[kind |-> k, text |-> <<>>] : k \in {"import_error", "api_error"}}
    \cup {[kind |-> "text", text |-> t] : t \in GenResponseTexts}

GenCalls ==
    {[provider |-> "mock", source |-> s, max_slides |-> m,
      llm |-> [kind |-> "not_called", text |-> <<>>]] :
        s \in GenSources, m \in 0..MaxGenSlides}
    \cup {[provider |-> p, source |-> s, max_slides |-> m, llm |-> l] :
             p \in {"anthropic", "openai"},
             s \in {[kind |-> k, sections |-> <<>>] : k \in {"missing_file", "musk"}},
             m \in 0..MaxGenSlides, l \in GenLLMOutcomes}

NoGenCall ==
    [provider |-> "mock", source |-> [kind |-> "none", sections |-> <<>>],
     max_slides |-> 0, llm |-> [kind |-> "not_called", text |-> <<>>]]

GenOutcome(state, error, slides) ==
    [state |-> state, error |-> error, slides |-> slides]

GenIdle == GenOutcome("idle", "", <<>>)

GenQuiet == genIn = NoGenCall /\ genOut = GenIdle

\* n slide dicts of the given origin
SlideDicts(origin, n) ==
    [i \in 1..n |-> [slide_number |-> i, origin |-> origin]]

\* ContentGenerator._extract_json: the inside of the first code fence, else
\* the text from the first "{" to the last "}", else the text itself
GenExtractJson(text) ==
    LET open == FindFrom(text, <<"FENCE">>, 1)
        body == IF open # 0 /\ open < Len(text) /\ text[open + 1] = "json"
                THEN open + 2 ELSE open + 1
        close == IF open = 0 THEN 0 ELSE FindFrom(text, <<"FENCE">>, body)
        first == FindFrom(text, <<"{">>, 1)
        last == LastIndexOf(text, "}")
    IN IF close # 0 THEN Strip(SubSeq(text, body, close - 1))
       ELSE IF first # 0 /\ last > first THEN SubSeq(text, first, last)
       ELSE text

\* json.loads on the extracted text: ok is FALSE where it raises
GenJsonLoads(text) ==
    IF Len(text) = 3 /\ text[1] = "{" /\ text[3] = "}"
    THEN [ok |-> TRUE, t |-> "dict", slides |-> text[2]]
    ELSE IF text = <<"[", "]">> THEN [ok |-> TRUE, t |-> "list", slides |-> "none"]
    ELSE [ok |-> FALSE, t |-> "", slides |-> "none"]

\* _call_anthropic / _call_openai: every failure inside the try block is
\* re-raised as ImportError or RuntimeError
GenCallLLM(llm) ==
    IF llm.kind = "import_error" THEN [ok |-> FALSE, error |-> "ImportError"]
    ELSE IF llm.kind = "api_error" THEN [ok |-> FALSE, error |-> "RuntimeError"]
    ELSE LET parsed == GenJsonLoads(GenExtractJson(llm.text))
         IN IF parsed.ok THEN [ok |-> TRUE, error |-> "", data |-> parsed]
            ELSE [ok |-> FALSE, error |-> "RuntimeError"]

\* the loop of _mock_parse_content over the lines (lines 632-668): the
\* number of slides saved; st is <<saved, current_title, current_bullets>>
RECURSIVE MockParseLoop(_, _, _, _)
MockParseLoop(sections, k, st, max_slides) ==
    LET flush == st[2] /\ st[3] > 0 /\ st[1] + 1 <= max_slides
        after == IF flush THEN <<st[1] + 1, st[2], 0>> ELSE st
    IN IF k > Len(sections) THEN after[1]
       ELSE MockParseLoop(sections, k + 1,
                          <<after[1], TRUE, after[3] + sections[k]>>,
                          max_slides)

\* _mock_parse_content with _create_generic_slides: fewer than three parsed
\* slides are replaced by min(max_slides, 10) generic ones, whose chunk size
\* divides by that number
MockParseContent(sections, max_slides) ==
    LET parsed == MockParseLoop(sections, 1, <<0, FALSE, 0>>, max_slides)
        generic == IF max_slides < 10 THEN max_slides ELSE 10
    IN IF parsed >= 3
       THEN [ok |-> TRUE, error |-> "",
             slides |-> SliceTo(SlideDicts("parsed", parsed), max_slides)]
       ELSE IF generic = 0
       THEN [ok |-> FALSE, error |-> "ZeroDivisionError", slides |-> <<>>]
       ELSE [ok |-> TRUE, error |-> "",
             slides |-> SliceTo(SlideDicts("generic", generic), max_slides)]

\* _mock_generate: the two demo decks have 8 and 10 slides
MockGenerate(source, max_slides) ==
    IF source.kind = "musk"
    THEN [ok |-> TRUE, error |-> "",
          slides |-> SliceTo(SlideDicts("musk", 8), max_slides)]
    ELSE IF source.kind = "retail"
    THEN [ok |-> TRUE, error |-> "",
          slides |-> SliceTo(SlideDicts("retail", 10), max_slides)]
    ELSE MockParseContent(source.sections, max_slides)

\* _convert_to_slide_content on the parsed answer: slides_data.get on a
\* list and slide_dict.get on a number raise AttributeError
ConvertToSlideContent(data) ==
    IF data.t # "dict" \/ data.slides = "bad"
    THEN [ok |-> FALSE, error |-> "AttributeError", slides |-> <<>>]
    ELSE IF data.slides = "none" THEN [ok |-> TRUE, error |-> "", slides |-> <<>>]
    ELSE LET n == CHOOSE k \in 0..(MaxGenSlides + 1) : ToString(k) = data.slides
         IN [ok |-> TRUE, error |-> "", slides |-> SlideDicts("llm", n)]

\* generate_from_document
GenerateFromDocumentResult(in) ==
    IF in.source.kind = "missing_file"
    THEN GenOutcome("raised", "FileNotFoundError", <<>>)
    ELSE IF in.provider = "mock"
    THEN LET mock == MockGenerate(in.source, in.max_slides)
         IN IF mock.ok THEN GenOutcome("returned", "", mock.slides)
            ELSE GenOutcome("raised", mock.error, <<>>)
    ELSE LET answer == GenCallLLM(in.llm)
         IN IF ~answer.ok THEN GenOutcome("raised", answer.error, <<>>)
            ELSE LET slides == ConvertToSlideContent(answer.data)
                 IN IF slides.ok THEN GenOutcome("returned", "", slides.slides)
                    ELSE GenOutcome("raised", slides.error, <<>>)

GenerateFromDocument ==
    /\ genOut.state = "idle"
    /\ genOut' = GenerateFromDocumentResult(genIn)
    /\ UNCHANGED <<genIn, placerVars, labelVars, boundsVars, chartVars,
                   deckVars, agentVars, vdaVars, arrowVars,
                   barTopVars>>

\* ------------------------------------------------------------------------
\* MainSlideGeneratorSkill._visual_design_ai_place_difference_line
\* (skills/main_slide_generator.py), next to AnnotationPlacer's local
\* calculation on the same bars
\* ------------------------------------------------------------------------
\* bar2 at several distances from bar1 (right_edge_x 100 or 101)
VdaBarLeftValues == {200, 320, 321, 408, 409, 420}

VdaBars2 ==
    {[left_edge_x |-> l, right_edge_x |-> l + 60, top_edge_y |-> 50] :
        l \in VdaBarLeftValues}

VdaLabelTexts == {t \in LabelTexts : Len(t) <= 1}

VdaCalls == [bar1 : Bars1, bar2 : VdaBars2, label_text : VdaLabelTexts]

NoVdaCall ==
    [bar1 |-> CHOOSE b \in Bars1 : TRUE, bar2 |-> CHOOSE b \in VdaBars2 : TRUE,
     label_text |-> <<"idle">>]

VdaIdle ==
    [generator |-> [state |-> "idle", value |-> NoValue],
     placer |-> [state |-> "idle", value |-> NoValue]]

VdaQuiet == vdaIn = NoVdaCall /\ vdaOut = VdaIdle

\* _visual_design_ai_place_difference_line on bars given in pixels
\* (coordinates of the result in half pixels)
VisualDesignAiPlaceDifferenceLine(bar1, bar2, label_text) ==
    LET gutter_centerline == GutterCenterline(bar1.right_edge_x, bar2.left_edge_x)
        line_start_y == 2 * bar1.top_edge_y
        line_end_y == 2 * bar2.top_edge_y
        vertical_center_y == bar1.top_edge_y + bar2.top_edge_y
        label_padding == 2 * 10
        label_width_estimate == 2 * 144
        right_x == gutter_centerline + label_padding
        collides == Collision(right_x, label_width_estimate, 2 * bar2.left_edge_x)
        label_x == IF collides
                   THEN gutter_centerline - label_padding - label_width_estimate
                   ELSE right_x
        placement_side == IF collides THEN "left" ELSE "right"
    IN PyValue("dict", {"line", "label"},
               [type |-> "dashed", color |-> "Negative Red",
                start_y |-> line_start_y, end_y |-> line_end_y,
                position_x |-> gutter_centerline],
               LineKeys,
               [text |-> label_text, position_x |-> label_x,
                vertical_center_y |-> vertical_center_y,
                placement_side |-> placement_side],
               LabelKeys)

\* _add_difference_line, step 3: the generator places the annotation
VdaPlace ==
    /\ vdaIn # NoVdaCall
    /\ vdaOut.generator.state = "idle"
    /\ vdaOut' = [vdaOut EXCEPT !.generator =
                     Returned(VisualDesignAiPlaceDifferenceLine(
                         vdaIn.bar1, vdaIn.bar2, vdaIn.label_text))]
    /\ UNCHANGED <<vdaIn, placerVars, labelVars, boundsVars, chartVars,
                   deckVars, agentVars, genVars, arrowVars,
                   barTopVars>>

\* AnnotationPlacer(provider='mock').place_difference_line on the same bars
VdaPlacerPlace ==
    /\ vdaIn # NoVdaCall
    /\ vdaOut.placer.state = "idle"
    /\ vdaOut' = [vdaOut EXCEPT !.placer =
                     CalculatePlacementLocally(InputObject(InputData(vdaIn)))]
    /\ UNCHANGED <<vdaIn, placerVars, labelVars, boundsVars, chartVars,
                   deckVars, agentVars, genVars, arrowVars,
                   barTopVars>>

\* ------------------------------------------------------------------------
\* MainSlideGeneratorSkill._add_cagr_arrow (skills/main_slide_generator.py):
\* the Y coordinates of the arc.  Lengths are in 1/7200 inch (1 px at 144 DPI
\* is 50 units); Y grows downwards.
\* ------------------------------------------------------------------------
MaxArrowValue == 3
MaxCategories == 3

\* 1 px of the 144 DPI reference
UNITS_PER_PX == 50

\* chart_area of the chart+insight layout: y1_px 154, height_px 802
ArrowChartAreas ==
    {[y1 |-> 154 * UNITS_PER_PX, height |-> 802 * UNITS_PER_PX]}

\* the chart's series: the annotated one with any values, and possibly a
\* second one of constant height
ArrowCharts ==
    UNION {{<<s1>> : s1 \in [1..n -> 0..MaxArrowValue]}
           \cup {<<s1, [c \in 1..n |-> k]>> :
                     s1 \in [1..n -> 0..MaxArrowValue], k \in {0, MaxArrowValue}}
           : n \in 2..MaxCategories}

\* annotation: series_index, from_category, to_category (-1: the last one)
ArrowCalls ==
    {c \in [series : ArrowCharts, chart_area : ArrowChartAreas,
            series_index : 0..1, from_category : 0..(MaxCategories - 1),
            to_category : (-1)..(MaxCategories - 1)] :
        /\ c.series_index < Len(c.series)
        /\ c.from_category < Len(c.series[1])
        /\ c.to_category < Len(c.series[1])}

NoArrowCall ==
    [series |-> <<>>, chart_area |-> CHOOSE a \in ArrowChartAreas : TRUE,
     series_index |-> 0, from_category |-> 0, to_category |-> 0]

ArrowIdle ==
    [state |-> "idle", scale |-> 1, curve_points |-> <<>>, apex_y |-> 0,
     highest_obstacle_y |-> 0]

ArrowQuiet == arrowIn = NoArrowCall /\ arrowOut = ArrowIdle

SeqMax(s) == CHOOSE m \in {s[i] : i \in DOMAIN s} : \A i \in DOMAIN s : s[i] <= m

SeqMin(s) == CHOOSE m \in {s[i] : i \in DOMAIN s} : \A i \in DOMAIN s : m <= s[i]

\* clearance_px / 144 * 1.33 inch: 30 px * 1.33 = 39.9 px
ControlLift == (30 * UNITS_PER_PX * 133) \div 100

\* control_y = highest_obstacle_y - (clearance_inches * 1.33)
ControlY(highest_obstacle_y, lift) == highest_obstacle_y - lift

\* bezier_point at t = i / num_segments, times num_segments^2
BezierPoint(i, p0, p1, p2) ==
    (20 - i) * (20 - i) * p0 + 2 * (20 - i) * i * p1 + i * i * p2

\* _add_cagr_arrow, steps 1 to 3 (Y coordinates).  y_range is taken in
\* tenths; every Y is multiplied by y_range10, the curve points by 400 more.
AddCagrArrowResult(in) ==
    LET chart_y1 == in.chart_area.y1
        chart_height == in.chart_area.height
        series_values == in.series[in.series_index + 1]
        num_categories == Len(series_values)
        to_cat_idx == IF in.to_category < 0
                      THEN num_categories + in.to_category ELSE in.to_category
        from_value == series_values[in.from_category + 1]
        to_value == series_values[to_cat_idx + 1]
        data_max == SeqMax([k \in 1..Len(in.series) |-> SeqMax(in.series[k])])
        y_range10 == IF 11 * data_max <= 0 THEN 10 ELSE 11 * data_max
        plot_y1 == chart_y1 + (8 * chart_height) \div 100
        plot_height == (77 * chart_height) \div 100
        get_bar_top_y(value) ==
            (plot_y1 + plot_height) * y_range10 - 10 * value * plot_height
        from_y == get_bar_top_y(from_value)
        to_y == get_bar_top_y(to_value)
        min_cat == IF in.from_category < to_cat_idx THEN in.from_category ELSE to_cat_idx
        max_cat == IF in.from_category < to_cat_idx THEN to_cat_idx ELSE in.from_category
        obstacles == {0} \cup {in.series[k][c + 1] :
                                  k \in 1..Len(in.series), c \in min_cat..max_cat}
        highest_obstacle_value == CHOOSE v \in obstacles : \A w \in obstacles : w <= v
        highest_obstacle_y == get_bar_top_y(highest_obstacle_value)
        control_y == ControlY(highest_obstacle_y, ControlLift * y_range10)
        curve_points == [i \in 1..21 |-> BezierPoint(i - 1, from_y, control_y, to_y)]
    IN [state |-> "drawn", scale |-> 400 * y_range10,
        curve_points |-> curve_points, apex_y |-> SeqMin(curve_points),
        highest_obstacle_y |-> 400 * highest_obstacle_y]

AddCagrArrow ==
    /\ arrowIn # NoArrowCall
    /\ arrowOut.state = "idle"
    /\ arrowOut' = AddCagrArrowResult(arrowIn)
    /\ UNCHANGED <<arrowIn, placerVars, labelVars, boundsVars, chartVars,
                   deckVars, agentVars, genVars, vdaVars,
                   barTopVars>>

\* ------------------------------------------------------------------------
\* The bar-top Y of a data value in _add_cagr_arrow and _add_difference_line
\* (skills/main_slide_generator.py).  Lengths are in 1/7200 inch, values
\* and the axis range in tenths; every Y is multiplied by y_range10.
\* ------------------------------------------------------------------------
MaxNegativeValue == 2

\* the chart's series: the annotated one with any values, and possibly a
\* second one of constant height
BarTopCharts ==
    UNION {{<<s1>> : s1 \in [1..n -> (-MaxNegativeValue)..MaxArrowValue]}
           \cup {<<s1, [c \in 1..n |-> MaxArrowValue]>> :
                     s1 \in [1..n -> (-MaxNegativeValue)..MaxArrowValue]}
           : n \in 2..MaxCategories}

\* annotation: type, series_index, from_category and to_category (-1 and 1
\* are the defaults of the two methods)
BarTopCalls ==
    {c \in [op : {"cagr_arrow", "difference_line"}, series : BarTopCharts,
            chart_area : ArrowChartAreas, series_index : 0..1,
            from_category : 0..(MaxCategories - 1), to_category : {-1, 1}] :
        /\ c.series_index < Len(c.series)
        /\ c.from_category < Len(c.series[1])}

NoBarTopCall ==
    [op |-> "none", series |-> <<>>,
     chart_area |-> CHOOSE a \in ArrowChartAreas : TRUE,
     series_index |-> 0, from_category |-> 0, to_category |-> 0]

BarTopIdle ==
    [state |-> "idle", y_min10 |-> 0, y_max10 |-> 0, y_range10 |-> 1,
     plot_y1 |-> 0, plot_height |-> 0, from_value |-> 0, to_value |-> 0,
     from_y |-> 0, to_y |-> 0]

BarTopQuiet == barTopIn = NoBarTopCall /\ barTopOut = BarTopIdle

\* y_min, y_max and y_range of a chart whose value axis has no explicit
\* minimum_scale / maximum_scale (the generator sets neither)
AxisRange(series) ==
    LET data_max == SeqMax([k \in 1..Len(series) |-> SeqMax(series[k])])
        y_min10 == 0
        y_max10 == 11 * data_max
    IN [y_min10 |-> y_min10, y_max10 |-> y_max10,
        y_range10 |-> IF y_max10 - y_min10 <= 0 THEN 10 ELSE y_max10 - y_min10]

\* get_bar_top_y / get_bar_top_y_inches
GetBarTopY(value10, y_min10, y_range10, plot_y1, plot_height) ==
    (plot_y1 + plot_height) * y_range10 - (value10 - y_min10) * plot_height

\* step 1 of both methods up to the anchors' Y; to_cat_idx is the index
\* the method reads series_values at
BarTopsResult(in, to_cat_idx) ==
    LET series_values == in.series[in.series_index + 1]
        from_value == series_values[in.from_category + 1]
        to_value == series_values[to_cat_idx + 1]
        axis == AxisRange(in.series)
        plot_y1 == in.chart_area.y1 + (8 * in.chart_area.height) \div 100
        plot_height == (77 * in.chart_area.height) \div 100
    IN [state |-> "done", y_min10 |-> axis.y_min10, y_max10 |-> axis.y_max10,
        y_range10 |-> axis.y_range10, plot_y1 |-> plot_y1,
        plot_height |-> plot_height, from_value |-> from_value,
        to_value |-> to_value,
        from_y |-> GetBarTopY(10 * from_value, axis.y_min10, axis.y_range10,
                              plot_y1, plot_height),
        to_y |-> GetBarTopY(10 * to_value, axis.y_min10, axis.y_range10,
                            plot_y1, plot_height)]

\* _add_cagr_arrow: a negative to_category counts from the last category
CagrArrowBarTops ==
    /\ barTopIn.op = "cagr_arrow"
    /\ barTopOut.state = "idle"
    /\ LET n == Len(barTopIn.series[barTopIn.series_index + 1])
           to_cat_idx == IF barTopIn.to_category < 0
                         THEN n + barTopIn.to_category ELSE barTopIn.to_category
       IN barTopOut' = BarTopsResult(barTopIn, to_cat_idx)
    /\ UNCHANGED <<barTopIn, placerVars, labelVars, boundsVars, chartVars,
                   deckVars, agentVars, genVars, vdaVars, arrowVars>>

\* _add_difference_line: series_values[to_cat_idx] with Python's indexing
DifferenceLineBarTops ==
    /\ barTopIn.op = "difference_line"
    /\ barTopOut.state = "idle"
    /\ LET n == Len(barTopIn.series[barTopIn.series_index + 1])
           index == IF barTopIn.to_category < 0
                    THEN n + barTopIn.to_category ELSE barTopIn.to_category
       IN barTopOut' = BarTopsResult(barTopIn, index)
    /\ UNCHANGED <<barTopIn, placerVars, labelVars, boundsVars, chartVars,
                   deckVars, agentVars, genVars, vdaVars, arrowVars>>

\* ------------------------------------------------------------------------
\* Specifications: one per component, each call drawn in the initial state
\* ------------------------------------------------------------------------
InitPlacer ==
    /\ placerIn \in PlacerInputs
    /\ placerOut = PlacerIdle
    /\ LabelQuiet /\ BoundsQuiet /\ ChartQuiet /\ DeckQuiet
    /\ AgentQuiet /\ GenQuiet /\ VdaQuiet /\ ArrowQuiet /\ BarTopQuiet

NextPlacer == PlaceDifferenceLine

SpecPlacer == InitPlacer /\ [][NextPlacer]_vars

InitLabel ==
    /\ labelIn \in DifferenceCalls \cup CagrCalls
    /\ labelOut = LabelIdle
    /\ PlacerQuiet /\ BoundsQuiet /\ ChartQuiet /\ DeckQuiet
    /\ AgentQuiet /\ GenQuiet /\ VdaQuiet /\ ArrowQuiet /\ BarTopQuiet

NextLabel == GenerateDifferenceLabel \/ GenerateCagrLabel

SpecLabel == InitLabel /\ [][NextLabel]_vars

InitBounds ==
    /\ boundsIn \in BoundsCalls
    /\ boundsOut = BoundsIdle
    /\ PlacerQuiet /\ LabelQuiet /\ ChartQuiet /\ DeckQuiet
    /\ AgentQuiet /\ GenQuiet /\ VdaQuiet /\ ArrowQuiet /\ BarTopQuiet

NextBounds == CallValidateBounds

SpecBounds == InitBounds /\ [][NextBounds]_vars

InitChart ==
    /\ chartIn \in ChartCalls
    /\ chartOut = ChartIdle
    /\ PlacerQuiet /\ LabelQuiet /\ BoundsQuiet /\ DeckQuiet
    /\ AgentQuiet /\ GenQuiet /\ VdaQuiet /\ ArrowQuiet /\ BarTopQuiet

NextChart == CreateColumnChart

SpecChart == InitChart /\ [][NextChart]_vars

InitDeck ==
    /\ request \in Requests
    /\ prs = <<>>
    /\ pc = "start"
    /\ result = Pending
    /\ PlacerQuiet /\ LabelQuiet /\ BoundsQuiet /\ ChartQuiet
    /\ AgentQuiet /\ GenQuiet /\ VdaQuiet /\ ArrowQuiet /\ BarTopQuiet

NextDeck ==
    \/ AddTitleSlide
    \/ AddContentSlide
    \/ AddClosingSlide
    \/ SavePresentation

SpecDeck == InitDeck /\ [][NextDeck]_vars

InitAgent ==
    /\ agentIn \in FromTopicCalls \cup ValidateCalls \cup AnalyzeCalls
    /\ agentOut = AgentIdle
    /\ PlacerQuiet /\ LabelQuiet /\ BoundsQuiet /\ ChartQuiet /\ DeckQuiet
    /\ GenQuiet /\ VdaQuiet /\ ArrowQuiet /\ BarTopQuiet

NextAgent ==
    \/ CreatePresentationFromTopic
    \/ ValidatePresentationRequest
    \/ CallAnalyzeTopic

SpecAgent == InitAgent /\ [][NextAgent]_vars

InitGen ==
    /\ genIn \in GenCalls
    /\ genOut = GenIdle
    /\ PlacerQuiet /\ LabelQuiet /\ BoundsQuiet /\ ChartQuiet /\ DeckQuiet
    /\ AgentQuiet /\ VdaQuiet /\ ArrowQuiet /\ BarTopQuiet

NextGen == GenerateFromDocument

SpecGen == InitGen /\ [][NextGen]_vars

InitVda ==
    /\ vdaIn \in VdaCalls
    /\ vdaOut = VdaIdle
    /\ PlacerQuiet /\ LabelQuiet /\ BoundsQuiet /\ ChartQuiet /\ DeckQuiet
    /\ AgentQuiet /\ GenQuiet /\ ArrowQuiet /\ BarTopQuiet

NextVda ==
    \/ VdaPlace
    \/ VdaPlacerPlace

SpecVda == InitVda /\ [][NextVda]_vars

InitArrow ==
    /\ arrowIn \in ArrowCalls
    /\ arrowOut = ArrowIdle
    /\ PlacerQuiet /\ LabelQuiet /\ BoundsQuiet /\ ChartQuiet /\ DeckQuiet
    /\ AgentQuiet /\ GenQuiet /\ VdaQuiet /\ BarTopQuiet

NextArrow == AddCagrArrow

SpecArrow == InitArrow /\ [][NextArrow]_vars

InitBarTop ==
    /\ barTopIn \in BarTopCalls
    /\ barTopOut = BarTopIdle
    /\ PlacerQuiet /\ LabelQuiet /\ BoundsQuiet /\ ChartQuiet /\ DeckQuiet
    /\ AgentQuiet /\ GenQuiet /\ VdaQuiet /\ ArrowQuiet

NextBarTop ==
    \/ CagrArrowBarTops
    \/ DifferenceLineBarTops

SpecBarTop == InitBarTop /\ [][NextBarTop]_vars

\* ------------------------------------------------------------------------
\* Properties of the annotation placer
\* ------------------------------------------------------------------------
PlacerDone == placerOut.state # "idle"

LLMFailed(llm) ==
    llm.kind # "text" \/ ~LoadsAnswer(ExtractJson(llm.text)).ok

MockPlacement(in) ==
    PlaceDifferenceLineResult([in EXCEPT !.provider = "mock"], NoLLM)

\* C1: with provider 'anthropic' or 'openai', whenever the LLM call fails
\* (package missing, API error, no content, or an answer that is no JSON)
\* place_difference_line does not raise and returns exactly the placement
\* provider 'mock' returns for the same bar1, bar2 and label_text.
C1_FallbackEqualsMock ==
    (/\ PlacerDone
     /\ placerIn.provider \in {"anthropic", "openai"}
     /\ LLMFailed(placerOut.llm))
    => /\ placerOut.state = "returned"
       /\ placerOut.value = MockPlacement(placerIn).value

\* a failed call whose label text holds the very phrases the fallback
\* splits the prompt on
C1_Witness ==
    /\ placerOut.state = "returned"
    /\ placerIn.provider = "openai"
    /\ placerOut.llm.kind = "text"
    /\ LLMFailed(placerOut.llm)
    /\ placerIn.label_text = <<"ID", "NL", "Q">>
    /\ placerOut.value.label.text = placerIn.label_text

LocalCall == PlacerDone /\ placerIn.provider \in {"mock", "other"}

\* C3: the local placement puts line.position_x at the exact midpoint of
\* bar1.right_edge_x and bar2.left_edge_x (in half pixels: their sum), sets
\* line.start_y to bar1.top_edge_y and line.end_y to bar2.top_edge_y, and
\* label.vertical_center_y to the midpoint of start_y and end_y.
C3_LocalLineGeometry ==
    LocalCall =>
        LET v == placerOut.value
        IN /\ placerOut.state = "returned"
           /\ v.line.position_x =
                  placerIn.bar1.right_edge_x + placerIn.bar2.left_edge_x
           /\ v.line.start_y = 2 * placerIn.bar1.top_edge_y
           /\ v.line.end_y = 2 * placerIn.bar2.top_edge_y
           /\ 2 * v.label.vertical_center_y = v.line.start_y + v.line.end_y

\* a local placement whose midpoints fall on half pixels
C3_Witness ==
    /\ LocalCall
    /\ placerOut.state = "returned"
    /\ placerOut.value.line.position_x % 2 = 1
    /\ placerOut.value.label.vertical_center_y % 2 = 1
    /\ placerOut.value.line.start_y # placerOut.value.line.end_y

\* label.position_x + 100 > bar2.left_edge_x for the default position, in
\* half pixels
RightSideCollides ==
    placerOut.value.line.position_x + 20 + 200 > 2 * placerIn.bar2.left_edge_x

\* C4: the local placement puts the label 10 px right of the line
\* (placement_side 'right') unless that position plus the 100 px width
\* estimate exceeds bar2.left_edge_x; exactly then placement_side is
\* 'left' and label.position_x = line.position_x - 10 - 100.
C4_CollisionAvoidance ==
    LocalCall =>
        LET v == placerOut.value
        IN IF RightSideCollides
           THEN /\ v.label.placement_side = "left"
                /\ v.label.position_x = v.line.position_x - 20 - 200
           ELSE /\ v.label.placement_side = "right"
                /\ v.label.position_x = v.line.position_x + 20

\* the collision case, one pixel short of fitting
C4_Witness ==
    /\ LocalCall
    /\ RightSideCollides
    /\ placerOut.value.label.placement_side = "left"
    /\ placerOut.value.line.position_x + 20 + 200
           = 2 * placerIn.bar2.left_edge_x + 1

\* the label fits exactly: no collision
C4_WitnessFits ==
    /\ LocalCall
    /\ placerOut.value.label.placement_side = "right"
    /\ placerOut.value.line.position_x + 20 + 200 = 2 * placerIn.bar2.left_edge_x

IsPlacementDict(v) ==
    /\ v.t = "dict"
    /\ {"line", "label"} \subseteq v.keys
    /\ {"position_x", "start_y", "end_y"} \subseteq v.lineKeys
    /\ {"position_x", "vertical_center_y", "placement_side"} \subseteq v.labelKeys

\* C5: for every provider and every outcome of the LLM call, the value
\* place_difference_line returns is a dict with a 'line' entry
\* (position_x, start_y, end_y) and a 'label' entry (position_x,
\* vertical_center_y, placement_side).
C5_AlwaysPlacementDict ==
    PlacerDone =>
        placerOut.state = "returned" /\ IsPlacementDict(placerOut.value)

\* ------------------------------------------------------------------------
\* Properties of the label engine
\* ------------------------------------------------------------------------
LabelDone == labelOut.state # "idle"

\* the call raised, or its answer cannot be made a response object
LabelLLMFailed(op, llm) ==
    LET call == CallLabelLLM(llm)
        needed == IF op = "difference" THEN {"primary", "secondary"} ELSE {"label"}
    IN \/ ~call.ok
       \/ call.v.t # "dict"
       \/ \E k \in needed \cap call.v.keys : call.v[k].t # "str"

MockLabel(in) ==
    IF in.op = "difference"
    THEN GenerateDifferenceLabelResult(in, "mock", NoLLM)
    ELSE GenerateCagrLabelResult(in, "mock", NoLLM)

\* C2: with provider 'anthropic' or 'openai', whenever the LLM call fails
\* or its answer cannot be turned into a valid response object,
\* generate_difference_label and generate_cagr_label do not raise and
\* return exactly the label provider 'mock' returns for the same arguments.
C2_LabelFallbackEqualsMock ==
    (/\ LabelDone
     /\ labelIn.provider \in {"anthropic", "openai"}
     /\ LabelLLMFailed(labelIn.op, labelOut.llm))
    => /\ labelOut.state = "returned"
       /\ labelOut.value = MockLabel(labelIn).value

\* an answer that parses but carries numbers where strings are required
C2_Witness ==
    /\ labelOut.state = "returned"
    /\ labelIn.op = "difference"
    /\ labelIn.provider = "anthropic"
    /\ labelOut.llm = [kind |-> "text", text |-> <<"L_numbers">>]
    /\ labelIn.start_value = 45 /\ labelIn.end_value = 17
    /\ labelIn.currency = "EUR" /\ labelIn.direction = "reduction"
    /\ labelOut.value.primary = <<"EUR", "28", " ", "savings">>
    /\ labelOut.value.secondary = <<"(", "62", "% ", "reduction", ")">>

\* a CAGR call whose LLM package is missing
C2_WitnessCagr ==
    /\ labelOut.state = "returned"
    /\ labelIn.op = "cagr"
    /\ labelIn.provider = "openai"
    /\ labelOut.llm.kind = "import_error"
    /\ labelOut.value.label = <<"4", "-Year CAGR: ", "+", "31", "%">>

\* ------------------------------------------------------------------------
\* Properties of the Safe Zone
\* ------------------------------------------------------------------------
\* the rectangle lies inside the Safe Zone, in pixels
InsideSafeZonePx(x, y, w, h) ==
    /\ SAFE_ZONE.top_left.x_px <= x
    /\ SAFE_ZONE.top_left.y_px <= y
    /\ x + w <= SAFE_ZONE.bottom_right.x_px
    /\ y + h <= SAFE_ZONE.bottom_right.y_px

\* the shape lies inside the Safe Zone, in EMU
InsideSafeZone(sh) ==
    /\ PxToInches(SAFE_ZONE.top_left.x_px) <= sh.left
    /\ PxToInches(SAFE_ZONE.top_left.y_px) <= sh.top
    /\ sh.left + sh.width <= PxToInches(SAFE_ZONE.bottom_right.x_px)
    /\ sh.top + sh.height <= PxToInches(SAFE_ZONE.bottom_right.y_px)

TextBoxesInside(slide) ==
    \A k \in 1..Len(slide.shapes) :
        slide.shapes[k].kind = "textbox" => InsideSafeZone(slide.shapes[k])

\* C6: every text box MainSlideGeneratorSkill places on the title slide, on
\* content slides (slide title, bullets, footer) and on the closing slide
\* lies entirely within the Safe Zone (96,54)-(1824,1026).
C6_TextBoxesInSafeZone ==
    \A i \in 1..Len(prs) : TextBoxesInside(prs[i])

\* what does hold: the text boxes of content and closing slides are inside
C6_ContentAndClosingInside ==
    \A i \in 1..Len(prs) : prs[i].layout # "title" => TextBoxesInside(prs[i])

\* C7: validate_bounds(x_px, y_px, width_px, height_px) returns True if and
\* only if the rectangle with that corner, width and height lies fully
\* within the Safe Zone, for all non-negative inputs.
C7_ValidateBoundsIffInside ==
    boundsOut.state = "returned" =>
        (boundsOut.value <=>
            InsideSafeZonePx(boundsIn.x_px, boundsIn.y_px,
                             boundsIn.width_px, boundsIn.height_px))

\* what does hold: the equivalence for rectangles of positive width and height
C7_PositiveExtent ==
    (boundsOut.state = "returned" /\ boundsIn.width_px > 0 /\ boundsIn.height_px > 0)
    => (boundsOut.value <=>
            InsideSafeZonePx(boundsIn.x_px, boundsIn.y_px,
                             boundsIn.width_px, boundsIn.height_px))

\* ------------------------------------------------------------------------
\* Properties of create_presentation
\* ------------------------------------------------------------------------
\* C8: create_presentation never raises: either it builds the title slide,
\* one slide per request slide in request order and the closing slide,
\* saves the file and returns success=True with slide_count =
\* len(request.slides) + 2, or a step failed and it returns success=False
\* with the error message set.
C8_CreatePresentationResult ==
    /\ result.state # "raised"
    /\ pc # "done" => result = Pending
    /\ pc = "done" =>
        /\ result.state = "returned"
        /\ IF result.success
           THEN /\ result.saved
                /\ result.slide_count = Len(request.slides) + 2
                /\ Len(prs) = Len(request.slides) + 2
                /\ prs[1].layout = "title"
                /\ prs[Len(prs)].layout = "closing"
                /\ \A i \in 1..Len(request.slides) :
                       /\ prs[i + 1].layout \notin {"title", "closing"}
                       /\ prs[i + 1].title = request.slides[i].title
           ELSE result.error_set /\ result.error # "" /\ ~result.saved

\* a saved deck of two different content slides
C8_Witness ==
    /\ pc = "done"
    /\ result.success
    /\ result.slide_count = 4
    /\ request.slides[1].title = "Plan"
    /\ request.slides[2].title = "Notes"

\* a deck whose file could not be written
C8_WitnessFailure ==
    /\ pc = "done"
    /\ ~result.success
    /\ result.error = SaveError
    /\ Len(prs) = Len(request.slides) + 2

ExpectedLayout(slide_content) ==
    IF HasChartData(slide_content) THEN "chart_insight" ELSE "bullets"

\* C9: every request slide with non-empty chart_data is laid out with the
\* chart+insight split layout read from the layout configuration (chart in
\* the left area, bullets in the right area), every other slide with the
\* bullets-only layout, and create_presentation returns success=True
\* (the file being writable).
C9_LayoutPerSlideAndSuccess ==
    (pc = "done" /\ result.error # SaveError) =>
        /\ result.success
        /\ \A i \in 1..Len(request.slides) :
               /\ prs[i + 1].layout = ExpectedLayout(request.slides[i])
               /\ HasChartData(request.slides[i]) =>
                      \E k \in 1..Len(prs[i + 1].shapes) :
                          prs[i + 1].shapes[k].kind = "chart"

\* what does hold: a deck without chart data succeeds with bullets layouts
C9_BulletsOnlyDecks ==
    (/\ pc = "done" /\ result.error # SaveError
     /\ \A i \in 1..Len(request.slides) : ~HasChartData(request.slides[i]))
    => /\ result.success
       /\ \A i \in 1..Len(request.slides) : prs[i + 1].layout = "bullets"

\* ------------------------------------------------------------------------
\* Properties of the colour engine
\* ------------------------------------------------------------------------
SeriesFilled(i, color) ==
    /\ chartOut.series_fill[i] = color
    /\ \A j \in 1..chartIn.num_points : chartOut.point_fill[i][j] = color

\* C10: in highlight mode of a column chart the series at index
\* highlight_index (default: the last series) is filled Primary Green and
\* every other series Light Grey, so exactly one series is highlighted.
C10_ExactlyOneHighlighted ==
    (chartOut.state = "returned" /\ chartOut.color_mode = "highlight") =>
        LET idx == HighlightIdx(chartIn)
            green == {i \in 1..chartIn.num_series :
                         SeriesFilled(i, COLORS.primary_green_rgb)}
            grey == {i \in 1..chartIn.num_series :
                         SeriesFilled(i, COLORS.light_grey_rgb)}
        IN /\ Cardinality(green) = 1
           /\ green = {idx + 1}
           /\ grey = (1..chartIn.num_series) \ green

\* what does hold: with highlight_index naming a series, exactly that one
C10_IndexInRange ==
    (/\ chartOut.state = "returned" /\ chartOut.color_mode = "highlight"
     /\ HighlightIdx(chartIn) \in 0..(chartIn.num_series - 1))
    => /\ SeriesFilled(HighlightIdx(chartIn) + 1, COLORS.primary_green_rgb)
       /\ \A i \in 1..chartIn.num_series :
              i # HighlightIdx(chartIn) + 1
                  => SeriesFilled(i, COLORS.light_grey_rgb)

\* ------------------------------------------------------------------------
\* Properties of the agent and the content analyzer
\* ------------------------------------------------------------------------
AgentDone(op) == agentIn.op = op /\ agentOut.state # "idle"

\* C11: create_presentation_from_topic called with a topic and no template
\* override does not raise: it picks the colour scheme given, or the one
\* suggested from the topic, applies it to the request and returns a
\* GenerationResult.
C11_FromTopicReturnsResult ==
    (AgentDone("from_topic") /\ agentIn.template = "none") =>
        /\ agentOut.state = "returned"
        /\ agentOut.color_scheme =
               IF agentIn.color_scheme = "none"
               THEN SuggestColorScheme(agentIn.topic)
               ELSE agentIn.color_scheme

\* what does hold: the call returns exactly when the template override is
\* 'main' (the colour scheme is skipped), and raises ValueError otherwise
C11_ReturnsOnlyWithMainOverride ==
    AgentDone("from_topic") =>
        IF TemplateLower(agentIn.template) = "main"
        THEN agentOut.state = "returned"
        ELSE agentOut.state = "raised" /\ agentOut.error = "ValueError"

ValidRequest(in) ==
    /\ in.topic # <<>>
    /\ in.num_slides >= 1
    /\ Lower(PathSuffix(in.output_path)) = <<".", "p", "p", "t", "x">>

\* C12: validate_presentation_request does not raise and returns the list
\* of validation error messages, which is empty when the request is valid
\* (non-empty topic, at least one slide, output path ending in .pptx).
C12_ValidateReturnsErrors ==
    AgentDone("validate") =>
        /\ agentOut.state = "returned"
        /\ ValidRequest(agentIn) => agentOut.errors = <<>>

\* what does hold: every call ends in AttributeError
C12_ValidateAlwaysRaises ==
    AgentDone("validate") =>
        agentOut.state = "raised" /\ agentOut.error = "AttributeError"

\* C13: analyze_topic(topic, num_slides) returns exactly num_slides slides,
\* the first being the TITLE slide carrying the topic, for every
\* num_slides >= 1.
C13_AnalyzeTopicSlideCount ==
    (AgentDone("analyze") /\ agentIn.num_slides >= 1) =>
        /\ agentOut.state = "returned"
        /\ Len(agentOut.slides) = agentIn.num_slides
        /\ agentOut.slides[1].slide_type = "title"
        /\ agentOut.slides[1].title = agentIn.topic

\* what does hold: at most ten slides are returned
C13_AtMostTenSlides ==
    (AgentDone("analyze") /\ agentIn.num_slides >= 1) =>
        /\ agentOut.state = "returned"
        /\ Len(agentOut.slides) =
               (IF agentIn.num_slides < 10 THEN agentIn.num_slides ELSE 10)
        /\ agentOut.slides[1].slide_type = "title"
        /\ agentOut.slides[1].title = agentIn.topic

\* ------------------------------------------------------------------------
\* Properties of the content generator
\* ------------------------------------------------------------------------
\* C14: generate_from_document(source, max_slides=m) returns a
\* PresentationRequest with at most m slides, for every provider, every
\* source text and every LLM response.
C14_AtMostMaxSlides ==
    genOut.state = "returned" => Len(genOut.slides) <= genIn.max_slides

\* what does hold: a request returned by the mock provider has at most
\* max_slides slides
C14_MockAtMostMaxSlides ==
    (genOut.state = "returned" /\ genIn.provider = "mock") =>
        Len(genOut.slides) <= genIn.max_slides

\* ------------------------------------------------------------------------
\* Properties of the local label generators (mock mode)
\* ------------------------------------------------------------------------
MockDone(op) ==
    labelIn.op = op /\ labelIn.provider = "mock" /\ labelOut.state # "idle"

\* the whole numbers nearest to num / den (two of them on a tie)
NearestWhole(num, den) ==
    {q \in (num \div den)..(num \div den + 1) :
        2 * Abs(q * den - num) <= den}

ActionWord(direction) ==
    IF direction = "reduction" THEN "savings"
    ELSE IF direction = "increase" THEN "increase" ELSE "change"

PctWord(direction) ==
    IF direction \in {"reduction", "increase"} THEN direction ELSE "change"

\* secondary is '(<p>% <word>)', p the percentage of the start value
SecondaryAsStated ==
    LET diff == Abs(labelIn.start_value - labelIn.end_value)
        pcts == IF labelIn.start_value = 0 THEN {0}
                ELSE NearestWhole(100 * diff, Abs(labelIn.start_value))
    IN \E p \in pcts :
           labelOut.value.secondary =
               <<"(", ToString(p), "% ", PctWord(labelIn.direction), ")">>

C15_Witness ==
    /\ MockDone("difference")
    /\ labelIn.start_value = 45 /\ labelIn.end_value = 17
    /\ labelIn.currency = "EUR" /\ labelIn.direction = "reduction"
    /\ labelOut.value.primary = <<"EUR", "28", " ", "savings">>
    /\ labelOut.value.secondary = <<"(", "62", "% ", "reduction", ")">>

C16_CagrLabel ==
    MockDone("cagr") =>
        /\ labelOut.state = "returned"
        /\ \E y \in NearestWhole(Abs(labelIn.cagr_value), 10),
              sign \in {"+", "-"} :
              /\ labelIn.cagr_value > 0 => sign = "+"
              /\ labelIn.cagr_value < 0 => sign = "-"
              /\ labelOut.value.label =
                     <<ToString(Len(labelIn.data_series) - 1), "-Year CAGR: ",
                       sign, ToString(y), "%">>

\* the example: five values and a CAGR of 0.31
C16_Witness ==
    /\ MockDone("cagr")
    /\ Len(labelIn.data_series) = 5
    /\ labelIn.cagr_value = 310
    /\ labelOut.value.label = <<"4", "-Year CAGR: ", "+", "31", "%">>

C16_WitnessNegative ==
    /\ MockDone("cagr")
    /\ labelIn.cagr_value = -50
    /\ labelOut.value.label =
           <<ToString(Len(labelIn.data_series) - 1), "-Year CAGR: ", "-", "5", "%">>

\* ------------------------------------------------------------------------
\* Properties of the layout configuration
\* ------------------------------------------------------------------------
\* a generator (which loads the configuration when it is constructed) is
\* at work on a request
ConfigLoaded == pc # "idle"

\* C17: the chart+insight layout of the configuration is a 50/50 split of
\* the content area: chart_area and text_area have equal width and are
\* separated by the 60 px gutter.
C17_ChartInsightEqualWidths ==
    ConfigLoaded =>
    LET layout == LAYOUT_DISTRIBUTION.chart_plus_insight_60_40
    IN /\ layout.gutter_px = 60
       /\ layout.text_area.x1_px - layout.chart_area.x2_px = layout.gutter_px
       /\ layout.chart_area.width_px = layout.text_area.width_px
       /\ layout.chart_area.x2_px - layout.chart_area.x1_px
              = layout.text_area.x2_px - layout.text_area.x1_px

\* the gutter alone is as configured
C17_ChartInsightGutter ==
    ConfigLoaded =>
    LET layout == LAYOUT_DISTRIBUTION.chart_plus_insight_60_40
    IN layout.text_area.x1_px = layout.chart_area.x2_px + 60

\* a split along x: widths are differences of the bounds, the second
\* region starts at the first region's end plus the gutter
SplitAlongX(first, second, gutter_px) ==
    /\ second.x1_px = first.x2_px + gutter_px
    /\ first.width_px = first.x2_px - first.x1_px
    /\ second.width_px = second.x2_px - second.x1_px

SplitAlongY(first, second, gutter_px) ==
    /\ second.y1_px = first.y2_px + gutter_px
    /\ first.height_px = first.y2_px - first.y1_px
    /\ second.height_px = second.y2_px - second.y1_px

RegionHeights(region) == region.height_px = region.y2_px - region.y1_px

SplitsOfLayoutDistribution ==
    LET side == LAYOUT_DISTRIBUTION.two_components_side_by_side
        rows == LAYOUT_DISTRIBUTION.two_components_top_bottom
        chart == LAYOUT_DISTRIBUTION.chart_plus_insight_60_40
    IN /\ SplitAlongX(side.left_column, side.right_column, side.gutter_px)
       /\ SplitAlongY(rows.top_row, rows.bottom_row, rows.gutter_px)
       /\ SplitAlongX(chart.chart_area, chart.text_area, chart.gutter_px)
       /\ RegionHeights(chart.chart_area) /\ RegionHeights(chart.text_area)
       /\ chart.text_area.x1_px = chart.chart_area.x2_px + 60

\* C18: in every two-region split of the layout configuration
\* (two_components_side_by_side, two_components_top_bottom, the
\* chart+insight layout and the two-column bullets option) the second
\* region starts exactly at the first region's end plus the layout's
\* gutter_px, and each region's width_px / height_px is the difference of
\* its bounds.
C18_SplitsRespectGutter ==
    ConfigLoaded =>
    LET cols == SLIDE_BLUEPRINTS.content_bullets.two_column_option
    IN /\ SplitsOfLayoutDistribution
       /\ SplitAlongX(cols.left_column, cols.right_column, cols.gutter_px)

\* the three splits of LAYOUT_DISTRIBUTION alone
C18_LayoutDistributionSplits == ConfigLoaded => SplitsOfLayoutDistribution

\* ------------------------------------------------------------------------
\* Properties of the generator's difference-line placement
\* ------------------------------------------------------------------------
VdaBothDone ==
    vdaOut.generator.state # "idle" /\ vdaOut.placer.state # "idle"

\* C19: _visual_design_ai_place_difference_line and AnnotationPlacer's
\* local calculation return the identical placement for the same bar1,
\* bar2 and label_text: same line coordinates, same label.position_x and
\* same placement_side.
C19_SamePlacementAsPlacer ==
    VdaBothDone =>
        /\ vdaOut.generator.state = "returned"
        /\ vdaOut.placer.state = "returned"
        /\ vdaOut.generator.value.line = vdaOut.placer.value.line
        /\ vdaOut.generator.value.label.position_x
               = vdaOut.placer.value.label.position_x
        /\ vdaOut.generator.value.label.placement_side
               = vdaOut.placer.value.label.placement_side

\* what does hold: the lines are the same, and so is the whole placement
\* once the label fits to the right by the generator's width of 144 px
C19_SameLine ==
    VdaBothDone => vdaOut.generator.value.line = vdaOut.placer.value.line

C19_SameWhenWideGutter ==
    (/\ VdaBothDone
     /\ vdaOut.generator.value.label.placement_side = "right")
    => vdaOut.generator.value = vdaOut.placer.value

\* ------------------------------------------------------------------------
\* Properties of the CAGR arrow
\* ------------------------------------------------------------------------
\* C20: the arc of _add_cagr_arrow peaks above the highest obstacle: the
\* apex (minimum Y over the 21 sampled curve points) lies above the top of
\* the highest bar of any series in the categories from from_category to
\* to_category inclusive, for every chart with non-negative values.
C20_ApexAboveHighestBar ==
    arrowOut.state = "drawn" =>
        /\ Len(arrowOut.curve_points) = 21
        /\ arrowOut.apex_y < arrowOut.highest_obstacle_y

\* what does hold: the control point is above the highest bar, and so is
\* the apex when the arrow starts or ends on the highest bar
C20_ApexAboveWhenAnchoredOnHighest ==
    (/\ arrowOut.state = "drawn"
     /\ \/ arrowOut.curve_points[1] = arrowOut.highest_obstacle_y
        \/ arrowOut.curve_points[21] = arrowOut.highest_obstacle_y)
    => arrowOut.apex_y < arrowOut.highest_obstacle_y

\* ------------------------------------------------------------------------
\* Properties of the bar-top interpolation
\* ------------------------------------------------------------------------
BarTopDone == barTopOut.state = "done"

\* the Y the method's formula gives a value (in tenths), on the axis and
\* the plot area of the call
BarTopYOf(value10) ==
    GetBarTopY(value10, barTopOut.y_min10, barTopOut.y_range10,
               barTopOut.plot_y1, barTopOut.plot_height)

PlotTop == barTopOut.plot_y1 * barTopOut.y_range10

PlotBottom == (barTopOut.plot_y1 + barTopOut.plot_height) * barTopOut.y_range10

InsidePlot(y) == PlotTop <= y /\ y <= PlotBottom

\* C21: the bar-top Y of a data value is the linear interpolation of the
\* value over [y_min, y_max]: y_min maps to the bottom edge of the plot
\* area, y_max to its top edge, larger values never map to a lower
\* position, and the computed Y of every value of the chart lies within
\* the plot area's vertical extent.
C21_BarTopInterpolation ==
    BarTopDone =>
        /\ BarTopYOf(barTopOut.y_min10) = PlotBottom
        /\ BarTopYOf(barTopOut.y_max10) = PlotTop
        /\ barTopOut.from_value <= barTopOut.to_value
               => barTopOut.to_y <= barTopOut.from_y
        /\ barTopOut.from_value >= barTopOut.to_value
               => barTopOut.to_y >= barTopOut.from_y
        /\ InsidePlot(barTopOut.from_y)
        /\ InsidePlot(barTopOut.to_y)

\* what does hold: the mapping of y_min and the order of the values on
\* every chart, and all of the statement on charts whose values are
\* non-negative and not all zero
C21_BottomAndOrder ==
    BarTopDone =>
        /\ BarTopYOf(barTopOut.y_min10) = PlotBottom
        /\ barTopOut.from_value <= barTopOut.to_value
               => barTopOut.to_y <= barTopOut.from_y

C21_NonNegativeCharts ==
    (/\ BarTopDone
     /\ barTopOut.y_max10 > 0
     /\ \A k \in 1..Len(barTopIn.series) :
            \A c \in 1..Len(barTopIn.series[k]) : barTopIn.series[k][c] >= 0)
    => /\ BarTopYOf(barTopOut.y_max10) = PlotTop
       /\ InsidePlot(barTopOut.from_y)
       /\ InsidePlot(barTopOut.to_y)

====
